---- MODULE Spec2Model ----
(***************************************************************************)
(* TiXL security gate evaluator (.github/scripts/security-gate-evaluator.py)*)
(* as a state machine: main() builds a SecurityGateEvaluator from a policy  *)
(* file, loads a scan-results directory, evaluates the gates, saves the     *)
(* decision and prints the status for CI.                                   *)
(* The counts of the dashboard generator (generate-security-dashboard.py)   *)
(* and of the notification handler (security-notification-handler.py) are  *)
(* operators on the same findings.                                          *)
(*                                                                          *)
(* Text the program inspects character by character (rule conditions,       *)
(* allow-list entries, titles, CWE ids) is a sequence of one-character      *)
(* strings, so that `in` and str.lower() are computed, not assumed.  Text   *)
(* that is only compared for equality (severity, tool, category, names) is  *)
(* a TLA+ string.  A Python dict is a function whose DOMAIN is its key set; *)
(* the empty dict, the empty list and the empty str are all <<>>.           *)
(***************************************************************************)
EXTENDS Integers, Sequences, FiniteSets, TLC

VARIABLES
    args,             \* parsed command line: the gate policy file and the
                      \* scan-results directory main is run on
    config,           \* self.config: the SecurityGateConfig in force
    scan_results,     \* self.scan_results
    vulnerabilities,  \* self.vulnerabilities
    gate_status,      \* self.gate_status
    gate_details,     \* self.gate_details
    gate_results,     \* evaluate_security_gates' local list of rule results
    saved,            \* content of the output file, <<>> while unwritten
    stdout,           \* lines printed by main
    exit_code,        \* argument of sys.exit, -1 while running
    clock,            \* datetime.utcnow(), one tick per step of main
    pc,               \* position of main
    \* generate-security-dashboard.py and generate-triage-summary.py
    report_findings,      \* the findings list both reports are built from
    top_vulnerabilities,  \* metrics['top_vulnerabilities'] of the dashboard
    sorted_vulns,         \* the top-priority list of the triage summary
    report_pc,            \* the report generators that have run
    \* security-notification-handler.py
    handler_args,     \* how the handler is run and what it is given
    handler_scan_data,\* the scan data loaded by process_notifications
    urgency,          \* first component of the notification requirements
    channels,         \* second component: the channels to notify
    attempted,        \* channels whose sender was called, in call order
    delivered,        \* channels whose sender completed the delivery
    handler_exit_code,\* exit status of the handler process, -1 while running
    handler_pc,       \* position of the handler
    \* certification-tracker.py
    students,         \* student_id column of the students table
    courses,          \* course_id column of the courses table
    enrollments,      \* rows of the enrollments table, in insertion order
    certifications,   \* rows of the certifications table, in insertion order
    call,             \* the last tracker call: operation, arguments, return value
                      \* (and, for issue_certification, the certifications table
                      \* the call found)
    tracker_pc        \* "idle" outside the tracker, else "ready"

evaluator_vars ==
    <<args, config, scan_results, vulnerabilities, gate_status, gate_details,
      gate_results, saved, stdout, exit_code, clock, pc>>

report_vars ==
    <<report_findings, top_vulnerabilities, sorted_vulns, report_pc>>

handler_vars ==
    <<handler_args, handler_scan_data, urgency, channels, attempted, delivered,
      handler_exit_code, handler_pc>>

tracker_vars ==
    <<students, courses, enrollments, certifications, call, tracker_pc>>

vars ==
    <<evaluator_vars, report_vars, handler_vars, tracker_vars>>

\* The programs are separate processes: while one runs, the state of the
\* others is the one below.
EvaluatorIdle ==
    /\ args = <<>> /\ config = <<>> /\ scan_results = <<>> /\ vulnerabilities = <<>>
    /\ gate_status = "UNKNOWN" /\ gate_details = <<>> /\ gate_results = <<>>
    /\ saved = <<>> /\ stdout = <<>> /\ exit_code = -1 /\ clock = 0 /\ pc = "idle"

ReportIdle ==
    /\ report_findings = <<>> /\ top_vulnerabilities = <<>> /\ sorted_vulns = <<>>
    /\ report_pc = {}

HandlerIdle ==
    /\ handler_args = <<>> /\ handler_scan_data = <<>> /\ urgency = "" /\ channels = <<>>
    /\ attempted = <<>> /\ delivered = {} /\ handler_exit_code = -1
    /\ handler_pc = "idle"

TrackerIdle ==
    /\ students = {} /\ courses = {} /\ enrollments = <<>> /\ certifications = <<>>
    /\ call = <<>> /\ tracker_pc = "idle"

----------------------------------------------------------------------------
(* Python values and built-ins                                             *)

\* None in a slot that otherwise holds text (a sequence of characters).
NoneT ==
    <<"None">>

\* None in a slot that otherwise holds an opaque string.
None ==
    "None"

\* bool(v) for a text-or-None value: None and '' are falsy.
Truthy(v) ==
    v # NoneT /\ v # <<>>

\* dict.get(k, default)
Get(d, k, default) ==
    IF k \in DOMAIN d THEN d[k] ELSE default

UpperCase ==
    <<"A", "B", "C", "D", "E", "F", "G", "H", "I", "J", "K", "L", "M",
      "N", "O", "P", "Q", "R", "S", "T", "U", "V", "W", "X", "Y", "Z">>

LowerCase ==
    <<"a", "b", "c", "d", "e", "f", "g", "h", "i", "j", "k", "l", "m",
      "n", "o", "p", "q", "r", "s", "t", "u", "v", "w", "x", "y", "z">>

LowerChar(c) ==
    IF \E i \in 1..26 : UpperCase[i] = c
    THEN LowerCase[CHOOSE i \in 1..26 : UpperCase[i] = c]
    ELSE c

\* str.lower()
lower(s) ==
    [i \in 1..Len(s) |-> LowerChar(s[i])]

\* `sub in s` for two str
str_contains(sub, s) ==
    \E i \in 0..(Len(s) - Len(sub)) : SubSeq(s, i + 1, i + Len(sub)) = sub

\* `x in lst` for a list
list_contains(x, lst) ==
    \E i \in 1..Len(lst) : lst[i] = x

\* counts[k] += 1 on a defaultdict(int)
Inc(counts, k) ==
    IF k \in DOMAIN counts
    THEN [counts EXCEPT ![k] = @ + 1]
    ELSE counts @@ (k :> 1)

\* counts[k] read on a defaultdict(int)
CountOf(counts, k) ==
    IF k \in DOMAIN counts THEN counts[k] ELSE 0

\* A call that returned v / a call that raised exception e.
Ok(v) ==
    [ok |-> TRUE, value |-> v]

Raise(e) ==
    [ok |-> FALSE, exc |-> e]

\* A JSON string found where the code expects a JSON object and calls .get.
JsonStr(t) ==
    [json_str |-> t]

\* v is a dict (it has .get).
IsDict(v) ==
    "json_str" \notin DOMAIN v

----------------------------------------------------------------------------
(* Text literals of the source                                             *)

COND_CRITICAL ==
    <<"c", "r", "i", "t", "i", "c", "a", "l", "_", "c", "o", "u", "n", "t", " ", "=", "=", " ", "0">>

COND_HIGH ==
    <<"h", "i", "g", "h", "_", "c", "o", "u", "n", "t", " ", "<", "=", " ", "1", "0">>

COND_SECRET ==
    <<"s", "e", "c", "r", "e", "t", "_", "c", "o", "u", "n", "t", " ", "=", "=", " ", "0">>

COND_TOOLS ==
    <<"r", "e", "q", "u", "i", "r", "e", "d", "_", "t", "o", "o", "l", "s", "_", "p", "a", "s", "s", "e", "d">>

ALLOW_CWE_999 ==
    <<"C", "W", "E", "-", "9", "9", "9">>

ALLOW_INFO_ONLY ==
    <<"i", "n", "f", "o", "-", "o", "n", "l", "y">>

ALLOW_DOCUMENTATION ==
    <<"d", "o", "c", "u", "m", "e", "n", "t", "a", "t", "i", "o", "n">>

\* The literal 10 of the high-severity branch of _evaluate_rule.
HIGH_RULE_LIMIT ==
    10

----------------------------------------------------------------------------
(* Gate policy                                                             *)

SecurityGateConfig(thresholds, tools, rules, allow, fails) ==
    [severity_thresholds |-> thresholds,
     tool_requirements   |-> tools,
     policy_rules        |-> rules,
     allow_list          |-> allow,
     fail_conditions     |-> fails]

DefaultRules ==
    << [name |-> "No critical vulnerabilities", condition |-> COND_CRITICAL, action |-> "fail"],
       [name |-> "Limited high-severity issues", condition |-> COND_HIGH, action |-> "fail"],
       [name |-> "No secrets in code", condition |-> COND_SECRET, action |-> "fail"],
       [name |-> "All required tools must pass", condition |-> COND_TOOLS, action |-> "fail"] >>

DefaultFailConditions ==
    << "critical_vulnerabilities_exist", "excessive_high_vulnerabilities",
       "secrets_detected", "required_tools_failed" >>

_get_default_policy ==
    SecurityGateConfig(
        [critical |-> 0, high |-> 10, medium |-> 50, low |-> 100],
        [CodeQL  |-> [required |-> TRUE, min_score |-> 0],
         Grype   |-> [required |-> TRUE, min_score |-> 0],
         Semgrep |-> [required |-> FALSE, min_score |-> 0]],
        DefaultRules,
        <<ALLOW_CWE_999, ALLOW_INFO_ONLY, ALLOW_DOCUMENTATION>>,
        DefaultFailConditions)

\* A policy file is [kind |-> "absent" | "malformed" | "json", data |-> value].
_load_gate_policy(file) ==
    IF file.kind = "absent" THEN _get_default_policy
    ELSE IF file.kind = "malformed" THEN _get_default_policy
    ELSE IF file.data.type # "dict" THEN _get_default_policy  \* .get raises
    ELSE SecurityGateConfig(
            Get(file.data.dict, "severity_thresholds", <<>>),
            Get(file.data.dict, "tool_requirements", <<>>),
            Get(file.data.dict, "policy_rules", <<>>),
            Get(file.data.dict, "allow_list", <<>>),
            Get(file.data.dict, "fail_conditions", <<>>))

----------------------------------------------------------------------------
(* Vulnerability aggregation                                               *)

_is_allowed_vulnerability(vuln, cfg) ==
    LET cwe_id == Get(vuln, "cwe_id", NoneT)
        title  == lower(Get(vuln, "title", <<>>))
    IN  \/ Truthy(cwe_id) /\ list_contains(cwe_id, cfg.allow_list)
        \/ \E i \in 1..Len(cfg.allow_list) :
               str_contains(lower(cfg.allow_list[i]), title)

\* _evaluate_required_tools taking "passed" as the only passing status.
_evaluate_required_tools_passed_only(cfg, results) ==
    LET tool_results == Get(results, "tool_results", <<>>)
    IN  \A tool \in DOMAIN cfg.tool_requirements :
            Get(cfg.tool_requirements[tool], "required", FALSE)
                => Get(tool_results, tool, "unknown") = "passed"

\* A check that takes a tool without a status for a tool that passed.
_evaluate_required_tools_missing_ok(cfg, results) ==
    LET tool_results == Get(results, "tool_results", <<>>)
    IN  \A tool \in DOMAIN cfg.tool_requirements :
            Get(cfg.tool_requirements[tool], "required", FALSE)
                => Get(tool_results, tool, "passed") \in {"passed", "success"}

_evaluate_required_tools(cfg, results) ==
    LET tool_results == Get(results, "tool_results", <<>>)
    IN  \A tool \in DOMAIN cfg.tool_requirements :
            Get(cfg.tool_requirements[tool], "required", FALSE)
                => Get(tool_results, tool, "unknown") \in {"passed", "success"}

\* The accumulators of _calculate_vulnerability_metrics before its loop.
EmptyCounts ==
    [severity_counts |-> <<>>, tool_counts |-> <<>>, category_counts |-> <<>>,
     secret_count |-> 0, cve_count |-> 0]

\* An iteration in which a finding of severity info clears the counts.
CountVulnerabilityInfoClears(acc, vuln, cfg) ==
    IF Get(vuln, "severity", "low") = "info" THEN EmptyCounts
    ELSE [acc EXCEPT !.severity_counts = Inc(@, Get(vuln, "severity", "low")),
                     !.secret_count = IF Get(vuln, "category", "unknown") = "Secret Scanning"
                                      THEN @ + 1 ELSE @]

\* One iteration of the loop of _calculate_vulnerability_metrics.
CountVulnerability(acc, vuln, cfg) ==
    IF Get(vuln, "is_false_positive", FALSE) THEN acc
    ELSE IF _is_allowed_vulnerability(vuln, cfg) THEN acc
    ELSE LET severity == Get(vuln, "severity", "low")
             tool     == Get(vuln, "tool", "unknown")
             category == Get(vuln, "category", "unknown")
         IN  [severity_counts |-> Inc(acc.severity_counts, severity),
              tool_counts     |-> Inc(acc.tool_counts, tool),
              category_counts |-> Inc(acc.category_counts, category),
              secret_count    |-> IF category = "Secret Scanning"
                                  THEN acc.secret_count + 1 ELSE acc.secret_count,
              cve_count       |-> IF Get(vuln, "cve_id", None) # None
                                  THEN acc.cve_count + 1 ELSE acc.cve_count]

\* The loop of _calculate_vulnerability_metrics over vulns[1..n].
RECURSIVE CountVulnerabilities(_, _, _)
CountVulnerabilities(vulns, n, cfg) ==
    IF n = 0 THEN EmptyCounts
    ELSE CountVulnerability(CountVulnerabilities(vulns, n - 1, cfg), vulns[n], cfg)

\* len([v for v in self.vulnerabilities if not v.get('is_false_positive', False)])
NotFalsePositiveCount(vulns) ==
    Cardinality({i \in 1..Len(vulns) : ~Get(vulns[i], "is_false_positive", FALSE)})

\* Ok(metrics), or the KeyError of severity_thresholds['high'].
_calculate_vulnerability_metrics(vulns, cfg, results) ==
    LET acc == CountVulnerabilities(vulns, Len(vulns), cfg)
        sc  == acc.severity_counts
    IN  IF "high" \notin DOMAIN cfg.severity_thresholds
        THEN Raise("KeyError: 'high'")
        ELSE Ok([total_vulnerabilities |-> NotFalsePositiveCount(vulns),
                 critical_count |-> CountOf(sc, "critical"),
                 high_count     |-> CountOf(sc, "high"),
                 medium_count   |-> CountOf(sc, "medium"),
                 low_count      |-> CountOf(sc, "low"),
                 secret_count   |-> acc.secret_count,
                 cve_count      |-> acc.cve_count,
                 tool_counts    |-> acc.tool_counts,
                 category_counts |-> acc.category_counts,
                 critical_vulnerabilities_exist |-> CountOf(sc, "critical") > 0,
                 excessive_high_vulnerabilities |->
                     CountOf(sc, "high") > cfg.severity_thresholds["high"],
                 secrets_detected |-> acc.secret_count > 0,
                 required_tools_passed |-> _evaluate_required_tools(cfg, results)])

----------------------------------------------------------------------------
(* Rule evaluation                                                         *)

RuleResult(rule, passed, reason) ==
    [name      |-> Get(rule, "name", "Unknown Rule"),
     passed    |-> passed,
     condition |-> Get(rule, "condition", <<>>),
     reason    |-> reason,
     action    |-> Get(rule, "action", "fail")]

\* The else branch of _evaluate_rule failing closed.
UnrecognizedResultFailClosed(rule) ==
    RuleResult(rule, FALSE, "Rule condition not recognized")

\* The else branch of _evaluate_rule: no known predicate is in the condition.
UnrecognizedResult(rule) ==
    RuleResult(rule, TRUE, "Rule condition not recognized")

_evaluate_rule(rule, metrics) ==
    LET condition == Get(rule, "condition", <<>>)
    IN  IF condition = NoneT
        THEN \* `'...' in None` raises TypeError, caught by the except branch
             RuleResult(rule, FALSE,
                 "Evaluation error: argument of type 'NoneType' is not iterable")
        ELSE IF str_contains(COND_CRITICAL, condition)
        THEN RuleResult(rule, metrics.critical_count = 0,
                 IF metrics.critical_count # 0
                 THEN "Critical vulnerabilities found"
                 ELSE "No critical vulnerabilities")
        ELSE IF str_contains(COND_HIGH, condition)
        THEN RuleResult(rule, metrics.high_count <= HIGH_RULE_LIMIT,
                 IF ~(metrics.high_count <= HIGH_RULE_LIMIT)
                 THEN "High severity count (" \o ToString(metrics.high_count)
                          \o ") exceeds threshold (10)"
                 ELSE "High severity within limits")
        ELSE IF str_contains(COND_SECRET, condition)
        THEN RuleResult(rule, metrics.secret_count = 0,
                 IF metrics.secret_count # 0
                 THEN "Secrets detected in codebase"
                 ELSE "No secrets detected")
        ELSE IF str_contains(COND_TOOLS, condition)
        THEN RuleResult(rule, metrics.required_tools_passed,
                 IF ~metrics.required_tools_passed
                 THEN "Required security tools failed"
                 ELSE "All required tools passed")
        ELSE UnrecognizedResult(rule)

\* for rule in self.config.policy_rules: gate_results.append(self._evaluate_rule(...))
EvaluateRules(rules, metrics) ==
    [i \in 1..Len(rules) |-> _evaluate_rule(rules[i], metrics)]

\* The failed rules cut short at the first one.
FailedRulesFirstOnly(results) ==
    LET failed == SelectSeq(results, LAMBDA r : ~r.passed)
    IN  IF failed = <<>> THEN <<>> ELSE <<failed[1]>>

\* [r for r in gate_results if not r['passed']]
FailedRules(results) ==
    SelectSeq(results, LAMBDA r : ~r.passed)

\* The entry appended when _evaluate_required_tools() is false.
RequiredToolsEntry ==
    [name |-> "Required tools evaluation", passed |-> FALSE,
     reason |-> "One or more required security tools failed"]

\* A first part whose metrics depend on the time of the run.
DetermineGateStatusTimed(vulns, cfg, results, now, old_status, old_details) ==
    LET m == _calculate_vulnerability_metrics(vulns, cfg, results)
    IN  IF ~m.ok
        THEN [raised |-> TRUE, exc |-> m.exc, gate_status |-> old_status,
              gate_details |-> old_details, gate_results |-> <<>>]
        ELSE
        LET metrics  == [m.value EXCEPT !.cve_count = now]
            rr       == EvaluateRules(cfg.policy_rules, metrics)
            failed   == FailedRules(rr)
            status   == IF failed # <<>> THEN "FAILED" ELSE "PASSED"
        IN  [raised |-> FALSE, exc |-> None, gate_status |-> status,
             gate_details |->
                 IF failed # <<>>
                 THEN [status |-> status, failed_rules |-> failed,
                       metrics |-> metrics, timestamp |-> now]
                 ELSE [status |-> status,
                       passed_rules |-> [i \in 1..Len(rr) |-> rr[i].name],
                       metrics |-> metrics, timestamp |-> now],
             gate_results |-> rr]

\* The first part of evaluate_security_gates (metrics, rule loop, "determine
\* overall gate status") on (vulnerabilities, config, scan_results) at time
\* now: the values it leaves in gate_status, gate_details and the local
\* gate_results, and whether it raised.  old_status and old_details are the
\* values before.
DetermineGateStatus(vulns, cfg, results, now, old_status, old_details) ==
    LET m == _calculate_vulnerability_metrics(vulns, cfg, results)
    IN  IF ~m.ok
        THEN [raised |-> TRUE, exc |-> m.exc, gate_status |-> old_status,
              gate_details |-> old_details, gate_results |-> <<>>]
        ELSE
        LET metrics  == m.value
            rr       == EvaluateRules(cfg.policy_rules, metrics)
            failed   == FailedRules(rr)
        IN  IF failed # <<>>
            THEN [raised |-> FALSE, exc |-> None, gate_status |-> "FAILED",
                  gate_details |-> [status |-> "FAILED", failed_rules |-> failed,
                                    metrics |-> metrics, timestamp |-> now],
                  gate_results |-> rr]
            ELSE [raised |-> FALSE, exc |-> None, gate_status |-> "PASSED",
                  gate_details |-> [status |-> "PASSED",
                                    passed_rules |-> [i \in 1..Len(rr) |-> rr[i].name],
                                    metrics |-> metrics, timestamp |-> now],
                  gate_results |-> rr]

\* A check that sets the status and leaves gate_details alone.
CheckRequiredToolsStatusOnly(cfg, results, status, details) ==
    [raised |-> FALSE, exc |-> None,
     gate_status |-> IF _evaluate_required_tools(cfg, results) THEN status ELSE "FAILED",
     gate_details |-> details]

\* The last part of evaluate_security_gates ("check required tools") on the
\* gate_status and gate_details the first part left.
CheckRequiredTools(cfg, results, status, details) ==
    IF _evaluate_required_tools(cfg, results)
    THEN [raised |-> FALSE, exc |-> None, gate_status |-> status,
          gate_details |-> details]
    ELSE IF "failed_rules" \in DOMAIN details
    THEN [raised |-> FALSE, exc |-> None, gate_status |-> "FAILED",
          gate_details |->
              [details EXCEPT !.failed_rules = Append(@, RequiredToolsEntry)]]
    ELSE \* self.gate_details['failed_rules'] raises KeyError
         [raised |-> TRUE, exc |-> "KeyError: 'failed_rules'",
          gate_status |-> "FAILED", gate_details |-> details]

\* evaluate_security_gates as a whole: the values it leaves in gate_status,
\* gate_details and gate_results, and whether it raised.
evaluate_security_gates(vulns, cfg, results, now, old_status, old_details) ==
    LET d == DetermineGateStatus(vulns, cfg, results, now, old_status, old_details)
    IN  IF d.raised THEN d
        ELSE LET t == CheckRequiredTools(cfg, results, d.gate_status, d.gate_details)
             IN  [raised |-> t.raised, exc |-> t.exc, gate_status |-> t.gate_status,
                  gate_details |-> t.gate_details, gate_results |-> d.gate_results]

\* save_evaluation_results: the dict it leaves in self.gate_details, which is
\* also what json.dump writes.
save_evaluation_results(details, status, now) ==
    LET metrics == details.metrics
        added ==
          [scan_id |-> now,
           gate_status |-> status,
           total_vulnerabilities |->
               Get(metrics, "critical_count", 0) + Get(metrics, "high_count", 0)
               + Get(metrics, "medium_count", 0) + Get(metrics, "low_count", 0),
           critical_issues |-> Get(metrics, "critical_count", 0),
           high_issues     |-> Get(metrics, "high_count", 0),
           medium_issues   |-> Get(metrics, "medium_count", 0),
           low_issues      |-> Get(metrics, "low_count", 0),
           timestamp       |-> now]
    IN  added @@ details

----------------------------------------------------------------------------
(* Finding normalisation and loading                                       *)

\* A file is [kind |-> "absent" | "malformed" | "json", data |-> value]; a
\* JSON value that may be a dict or a list is [type |-> "dict" | "list",
\* dict |-> its content if a dict, list |-> its content if a list].

_create_vulnerability_from_data(vuln_data) ==
    [id              |-> Get(vuln_data, "id", "unknown"),
     title           |-> Get(vuln_data, "title", <<>>),
     description     |-> Get(vuln_data, "description", <<>>),
     severity        |-> Get(vuln_data, "severity", "low"),
     tool            |-> Get(vuln_data, "tool", "unknown"),
     category        |-> Get(vuln_data, "category", "unknown"),
     file_path       |-> Get(vuln_data, "file_path", None),
     line_number     |-> Get(vuln_data, "line_number", None),
     cve_id          |-> Get(vuln_data, "cve_id", None),
     cwe_id          |-> Get(vuln_data, "cwe_id", NoneT),
     package_name    |-> Get(vuln_data, "package_name", None),
     package_version |-> Get(vuln_data, "package_version", None),
     is_false_positive |-> Get(vuln_data, "is_false_positive", FALSE),
     status          |-> Get(vuln_data, "status", "open")]

\* A mapping that knows error only.
_map_sarif_level_to_severity_error_only(level) ==
    IF level = "error" THEN "high" ELSE "low"

_map_sarif_level_to_severity(level) ==
    CASE level = "error"   -> "high"
      [] level = "warning" -> "medium"
      [] level = "note"    -> "low"
      [] OTHER             -> "low"

\* The names _load_tool_results passes on (tool_dir_pattern.rstrip('-')), as text.
ToolNameText(tool_name) ==
    CASE tool_name = "codeql-results"     -> <<"c", "o", "d", "e", "q", "l", "-", "r", "e", "s", "u", "l", "t", "s">>
      [] tool_name = "semgrep-results"    -> <<"s", "e", "m", "g", "r", "e", "p", "-", "r", "e", "s", "u", "l", "t", "s">>
      [] tool_name = "sca-results"        -> <<"s", "c", "a", "-", "r", "e", "s", "u", "l", "t", "s">>
      [] tool_name = "sonarqube-results"  -> <<"s", "o", "n", "a", "r", "q", "u", "b", "e", "-", "r", "e", "s", "u", "l", "t", "s">>
      [] tool_name = "secret-scanning"    -> <<"s", "e", "c", "r", "e", "t", "-", "s", "c", "a", "n", "n", "i", "n", "g">>
      [] tool_name = "container-security" -> <<"c", "o", "n", "t", "a", "i", "n", "e", "r", "-", "s", "e", "c", "u", "r", "i", "t", "y">>
      [] tool_name = "iac-security"       -> <<"i", "a", "c", "-", "s", "e", "c", "u", "r", "i", "t", "y">>

\* tool_dirs of _load_tool_results, each already rstrip('-')-ed.
ToolNames ==
    << "codeql-results", "semgrep-results", "sca-results", "sonarqube-results",
       "secret-scanning", "container-security", "iac-security" >>

\* One results[] entry of a SARIF run, as _process_sarif_for_tool maps it.
SarifFinding(result, tool_name) ==
    LET message  == Get(result, "message", <<>>)
        base == [id          |-> tool_name \o "-" \o Get(result, "ruleId", "unknown"),
                 tool        |-> tool_name,
                 severity    |-> _map_sarif_level_to_severity(Get(result, "level", None)),
                 title       |-> Get(message, "text", ToolNameText(tool_name) \o <<" ", "f", "i", "n", "d", "i", "n", "g">>),
                 description |-> Get(message, "text", <<>>),
                 file_path   |-> None,
                 line_number |-> None,
                 category    |-> "SAST"]
        locations == Get(result, "locations", <<>>)
    IN  IF locations # <<>> /\ "physicalLocation" \in DOMAIN locations[1]
        THEN LET pl == locations[1].physicalLocation
             IN  [base EXCEPT
                    !.file_path   = Get(Get(pl, "artifactLocation", <<>>), "uri", None),
                    !.line_number = Get(Get(pl, "region", <<>>), "startLine", None)]
        ELSE base

\* The inner loop of _process_sarif_for_tool over one run's results.
SarifRunFindings(run, tool_name) ==
    LET results == Get(run, "results", <<>>)
        kept == SelectSeq(results,
                    LAMBDA r : Get(r, "level", None) \in {"error", "warning", "note"})
    IN  [i \in 1..Len(kept) |-> SarifFinding(kept[i], tool_name)]

RECURSIVE SarifRunsFindings(_, _, _)
SarifRunsFindings(runs, n, tool_name) ==
    IF n = 0 THEN <<>>
    ELSE SarifRunsFindings(runs, n - 1, tool_name) \o SarifRunFindings(runs[n], tool_name)

\* .get raises AttributeError while one results[] entry is processed: the
\* entry is no dict, or it is kept and its message or the physicalLocation of
\* its first location is no dict.
SarifResultRaises(result) ==
    \/ ~IsDict(result)
    \/ /\ Get(result, "level", None) \in {"error", "warning", "note"}
       /\ \/ ~IsDict(Get(result, "message", <<>>))
          \/ LET locations == Get(result, "locations", <<>>)
             IN  /\ locations # <<>>
                 /\ "physicalLocation" \in DOMAIN locations[1]
                 /\ ~IsDict(locations[1].physicalLocation)

\* .get raises AttributeError while one run is processed.
SarifRunRaises(run) ==
    \/ ~IsDict(run)
    \/ LET results == Get(run, "results", <<>>)
       IN  \E i \in 1..Len(results) : SarifResultRaises(results[i])

\* Ok(findings), or the AttributeError of .get on a value that is no dict;
\* the findings collected before the error are in the local list and are lost.
_process_sarif_for_tool(sarif_data, tool_name) ==
    IF sarif_data.type # "dict"
    THEN Raise("AttributeError: 'list' object has no attribute 'get'")
    ELSE LET runs == Get(sarif_data.dict, "runs", <<>>)
         IN  IF \E i \in 1..Len(runs) : SarifRunRaises(runs[i])
             THEN Raise("AttributeError: 'str' object has no attribute 'get'")
             ELSE Ok(SarifRunsFindings(runs, Len(runs), tool_name))

\* str.lower() on the severity names of a dependency scanner.
SeverityLower(s) ==
    CASE s = "Critical" -> "critical"
      [] s = "High"     -> "high"
      [] s = "Medium"   -> "medium"
      [] s = "Low"      -> "low"
      [] OTHER          -> s

GrypeFinding(match) ==
    LET vuln     == Get(match, "vulnerability", <<>>)
        artifact == Get(match, "artifact", <<>>)
    IN  [id          |-> "grype-" \o Get(vuln, "id", "unknown"),
         tool        |-> "Grype",
         severity    |-> SeverityLower(Get(vuln, "severity", "low")),
         title       |-> Get(vuln, "description", <<"V", "u", "l", "n", "e", "r", "a", "b", "l", "e", " ", "d", "e", "p", "e", "n", "d", "e", "n", "c", "y">>),
         description |-> Get(vuln, "description", <<>>),
         file_path   |-> None,
         line_number |-> None,
         category    |-> "SCA",
         package_name    |-> Get(artifact, "name", None),
         package_version |-> Get(artifact, "version", None)]

RetireFinding(finding) ==
    [id          |-> "retire-" \o Get(finding, "file", ""),
     tool        |-> "dotnet-retire",
     severity    |-> "high",
     title       |-> <<"K", "n", "o", "w", "n", " ", "v", "u", "l", "n", "e", "r", "a", "b", "l", "e", " ", ".", "N", "E", "T", " ", "p", "a", "c", "k", "a", "g", "e">>,
     description |-> Get(finding, "recommendation", <<>>),
     file_path   |-> Get(finding, "file", None),
     line_number |-> None,
     category    |-> "SCA",
     package_name    |-> Get(finding, "packageName", None),
     package_version |-> Get(finding, "version", None)]

TruffleHogFinding(json_data) ==
    LET git == Get(Get(Get(json_data, "SourceMetadata", <<>>), "Data", <<>>),
                   "Filesystem", <<>>)
    IN  [id          |-> "secret-" \o Get(json_data, "hash", "0"),
         tool        |-> "TruffleHog",
         severity    |-> "high",
         title       |-> <<"S", "e", "c", "r", "e", "t", " ", "d", "e", "t", "e", "c", "t", "e", "d", ":", " ">> \o Get(json_data, "DetectorName", <<"U", "n", "k", "n", "o", "w", "n">>),
         description |-> <<"P", "o", "t", "e", "n", "t", "i", "a", "l", " ", "s", "e", "c", "r", "e", "t", " ", "d", "e", "t", "e", "c", "t", "e", "d", ":", " ">> \o Get(json_data, "Redacted", <<"R", "E", "D", "A", "C", "T", "E", "D">>),
         file_path   |-> Get(git, "file", None),
         line_number |-> Get(git, "line", None),
         category    |-> "Secret Scanning",
         cwe_id      |-> <<"C", "W", "E", "-", "7", "9", "8">>]

\* match.get or vuln.get raises AttributeError: the match or its
\* 'vulnerability' is no dict.
GrypeMatchRaises(match) ==
    ~IsDict(match) \/ ~IsDict(Get(match, "vulnerability", <<>>))

\* Ok(findings), or the AttributeError raised part-way through the file; the
\* findings collected before the error are in the local list and are lost.
_process_json_for_tool(json_data, tool_name) ==
    LET name == lower(ToolNameText(tool_name))
    IN  IF name = <<"g", "r", "y", "p", "e">> \/ str_contains(<<"s", "c", "a">>, name)
        THEN IF json_data.type = "dict" /\ "matches" \in DOMAIN json_data.dict
             THEN LET matches == json_data.dict.matches
                  IN  IF \E i \in 1..Len(matches) : GrypeMatchRaises(matches[i])
                      THEN Raise("AttributeError: 'str' object has no attribute 'get'")
                      ELSE Ok([i \in 1..Len(matches) |-> GrypeFinding(matches[i])])
             ELSE Ok(<<>>)
        ELSE IF name = <<"r", "e", "t", "i", "r", "e">>
        THEN IF json_data.type = "list"
             THEN IF \E i \in 1..Len(json_data.list) : ~IsDict(json_data.list[i])
                  THEN Raise("AttributeError: 'str' object has no attribute 'get'")
                  ELSE Ok([i \in 1..Len(json_data.list) |->
                              RetireFinding(json_data.list[i])])
             ELSE Ok(<<>>)
        ELSE IF name = <<"t", "r", "u", "f", "f", "l", "e", "h", "o", "g">>
        THEN IF json_data.type = "dict" /\ "SourceMetadata" \in DOMAIN json_data.dict
             THEN Ok(<<TruffleHogFinding(json_data.dict)>>)
             ELSE Ok(<<>>)
        ELSE Ok(<<>>)

\* A loop body that extends self.vulnerabilities run by run, so that the
\* findings of the runs processed without error stay when a later run raises.
SarifFileFindingsKeepPartial(file, tool_name) ==
    IF file.kind # "json" \/ file.data.type # "dict" THEN <<>>
    ELSE LET runs == Get(file.data.dict, "runs", <<>>)
             good == SelectSeq(runs, LAMBDA r : ~SarifRunRaises(r))
         IN  SarifRunsFindings(good, Len(good), tool_name)

\* One pass of the first loop of _process_tool_directory: a *.sarif file.
SarifFileFindings(file, tool_name) ==
    IF file.kind # "json" THEN <<>>
    ELSE LET r == _process_sarif_for_tool(file.data, tool_name)
         IN  IF r.ok THEN r.value ELSE <<>>

\* One pass of the second loop: a *.json file; has_sarif_name is
\* 'sarif' in json_file.name.lower().
JsonFileFindings(file, tool_name) ==
    IF file.has_sarif_name THEN <<>>
    ELSE IF file.kind # "json" THEN <<>>
    ELSE LET r == _process_json_for_tool(file.data, tool_name)
         IN  IF r.ok THEN r.value ELSE <<>>

RECURSIVE SarifFilesFindings(_, _, _)
SarifFilesFindings(files, n, tool_name) ==
    IF n = 0 THEN <<>>
    ELSE SarifFilesFindings(files, n - 1, tool_name)
             \o SarifFileFindings(files[n], tool_name)

RECURSIVE JsonFilesFindings(_, _, _)
JsonFilesFindings(files, n, tool_name) ==
    IF n = 0 THEN <<>>
    ELSE JsonFilesFindings(files, n - 1, tool_name)
             \o JsonFileFindings(files[n], tool_name)

\* What _process_tool_directory appends for a tool directory
\* [tool_name, sarif_files, json_files], the files in rglob order.
_process_tool_directory(tool_dir) ==
    SarifFilesFindings(tool_dir.sarif_files, Len(tool_dir.sarif_files), tool_dir.tool_name)
        \o JsonFilesFindings(tool_dir.json_files, Len(tool_dir.json_files), tool_dir.tool_name)

\* What _load_tool_results appends: the directories of each pattern, in the
\* order of tool_dirs.
RECURSIVE _load_tool_results(_, _)
_load_tool_results(tool_dirs, k) ==
    IF k = 0 THEN <<>>
    ELSE LET mine == SelectSeq(tool_dirs, LAMBDA d : d.tool_name = ToolNames[k])
             RECURSIVE each(_)
             each(n) == IF n = 0 THEN <<>>
                        ELSE each(n - 1) \o _process_tool_directory(mine[n])
         IN  _load_tool_results(tool_dirs, k - 1) \o each(Len(mine))

\* What _load_vulnerability_analysis appends from vulnerabilities.json: every
\* item that is a dict (for any other item .get raises inside
\* _create_vulnerability_from_data, which then returns None).
VulnerabilityFileFindings(file) ==
    IF file.kind # "json" \/ file.data.type # "list" THEN <<>>
    ELSE LET items == SelectSeq(file.data.list, LAMBDA x : x.type = "dict")
         IN  [i \in 1..Len(items) |-> _create_vulnerability_from_data(items[i].dict)]

\* load_scan_results on a directory [has_analysis_dir, vuln_file,
\* analysis_file, tool_dirs]: the new (vulnerabilities, scan_results).
load_scan_results(dir, vulns, results) ==
    [vulnerabilities |->
        vulns
        \o (IF dir.has_analysis_dir THEN VulnerabilityFileFindings(dir.vuln_file) ELSE <<>>)
        \o _load_tool_results(dir.tool_dirs, Len(ToolNames)),
     scan_results |->
        IF dir.has_analysis_dir /\ dir.analysis_file.kind = "json"
        THEN ("analysis" :> dir.analysis_file.data.dict) @@ results
        ELSE results]

----------------------------------------------------------------------------
(* Inputs: the files main is run on                                        *)

\* Longest vulnerabilities.json drawn item by item.
MaxVulnItems ==
    2

\* Length of the vulnerabilities.json that repeats one high-severity item,
\* long enough to pass the limit of the high-severity rule.
HighBurst ==
    11

AbsentFile ==
    [kind |-> "absent", data |-> [type |-> "none", dict |-> <<>>, list |-> <<>>],
     has_sarif_name |-> FALSE]

MalformedFile ==
    [kind |-> "malformed", data |-> [type |-> "none", dict |-> <<>>, list |-> <<>>],
     has_sarif_name |-> FALSE]

\* A JSON object / a JSON array, as json.load returns it.
DictValue(d) ==
    [type |-> "dict", dict |-> d, list |-> <<>>]

ListValue(l) ==
    [type |-> "list", dict |-> <<>>, list |-> l]

JsonDict(d) ==
    [kind |-> "json", data |-> DictValue(d), has_sarif_name |-> FALSE]

JsonList(l) ==
    [kind |-> "json", data |-> ListValue(l), has_sarif_name |-> FALSE]

COND_HIGH_1 ==
    <<"h", "i", "g", "h", "_", "c", "o", "u", "n", "t", " ", "<", "=", " ", "1">>

COND_HIGH_100 ==
    <<"h", "i", "g", "h", "_", "c", "o", "u", "n", "t", " ", "<", "=", " ", "1", "0", "0">>

COND_MEDIUM ==
    <<"m", "e", "d", "i", "u", "m", "_", "c", "o", "u", "n", "t", " ", "<", "=", " ", "5", "0">>

RuleHigh1 ==
    [name |-> "At most 1 high", condition |-> COND_HIGH_1, action |-> "fail"]

RuleHigh100 ==
    [name |-> "At most 100 high", condition |-> COND_HIGH_100, action |-> "fail"]

RuleMedium ==
    [name |-> "Limited medium issues", condition |-> COND_MEDIUM, action |-> "fail"]

RuleNoCondition ==
    [name |-> "No condition"]

RuleNullCondition ==
    [name |-> "Null condition", condition |-> NoneT, action |-> "fail"]

\* The policy_rules lists of the policy files drawn.
RuleLists ==
    { DefaultRules,
      <<>>,
      <<DefaultRules[1], DefaultRules[2], DefaultRules[3]>>,
      <<DefaultRules[3], DefaultRules[1]>>,
      <<DefaultRules[1], RuleMedium, DefaultRules[4]>>,
      <<RuleMedium>>,
      <<RuleNoCondition>>,
      <<RuleNullCondition, DefaultRules[1]>>,
      <<RuleHigh1>>,
      <<RuleHigh100>> }

RequireNothing ==
    [Semgrep |-> [min_score |-> 0]]

RequireCodeQL ==
    [CodeQL |-> [required |-> TRUE, min_score |-> 0],
     Semgrep |-> [required |-> FALSE, min_score |-> 0]]

PolicyData(thresholds, tools, rules, allow) ==
    [severity_thresholds |-> thresholds, tool_requirements |-> tools,
     policy_rules |-> rules, allow_list |-> allow,
     fail_conditions |-> DefaultFailConditions]

\* The gate policy files main is run with.
PolicyFiles ==
    { AbsentFile, MalformedFile, JsonList(<<>>), JsonDict(<<>>) }
    \cup { JsonDict(PolicyData([critical |-> 0, high |-> 10], RequireCodeQL, rl,
                               <<ALLOW_CWE_999, ALLOW_DOCUMENTATION>>)) :
               rl \in RuleLists }
    \cup { JsonDict(PolicyData([critical |-> 0, high |-> 10], RequireNothing, rl,
                               <<ALLOW_CWE_999, ALLOW_DOCUMENTATION>>)) :
               rl \in { DefaultRules, <<>>,
                        <<DefaultRules[1], DefaultRules[2], DefaultRules[3]>> } }
    \cup { JsonDict(PolicyData([critical |-> 0, high |-> 1], RequireCodeQL, rl, <<>>)) :
               rl \in { DefaultRules, <<RuleHigh1>> } }
    \cup { JsonDict([policy_rules |-> DefaultRules,
                     tool_requirements |-> [CodeQL |-> [required |-> TRUE]]]),
           JsonDict(PolicyData([critical |-> 0, high |-> 10], <<>>, DefaultRules,
                               <<<<"D", "O", "C">>>>)) }

CWE_89 ==
    <<"C", "W", "E", "-", "8", "9">>

CWE_999_LOWER ==
    <<"c", "w", "e", "-", "9", "9", "9">>

TITLE_SQL ==
    <<"S", "Q", "L", " ", "i", "n", "j", "e", "c", "t", "i", "o", "n">>

TITLE_DOC ==
    <<"F", "i", "x", " ", "D", "o", "c", "u", "m", "e", "n", "t", "a", "t", "i", "o", "n">>

TITLE_KEY ==
    <<"A", "P", "I", " ", "k", "e", "y">>

\* The items of vulnerabilities.json drawn.
VulnItems ==
    { [id |-> "V1", title |-> TITLE_SQL, severity |-> "critical", tool |-> "CodeQL",
       category |-> "SAST", cwe_id |-> CWE_89],
      [id |-> "V2", title |-> TITLE_SQL, severity |-> "critical", tool |-> "CodeQL",
       category |-> "SAST", cwe_id |-> ALLOW_CWE_999],
      [id |-> "V3", title |-> TITLE_DOC, severity |-> "high", tool |-> "Semgrep",
       category |-> "SAST", cwe_id |-> CWE_999_LOWER],
      [id |-> "V4", title |-> TITLE_KEY, severity |-> "high", tool |-> "TruffleHog",
       category |-> "Secret Scanning"],
      [id |-> "V5", title |-> TITLE_SQL, severity |-> "medium", is_false_positive |-> TRUE],
      [severity |-> "info", cve_id |-> "CVE-2024-1"] }

HighItem ==
    [id |-> "V7", title |-> TITLE_SQL, severity |-> "high", tool |-> "CodeQL",
     category |-> "SAST"]

\* The lists of at most n items of VulnItems.
RECURSIVE VulnLists(_)
VulnLists(n) ==
    IF n = 0 THEN { <<>> }
    ELSE VulnLists(n - 1)
         \cup { Append(l, DictValue(v)) :
                    l \in { x \in VulnLists(n - 1) : Len(x) = n - 1 }, v \in VulnItems }

SarifSample ==
    [runs |-> <<
        [results |-> <<
            [level |-> "error", ruleId |-> "cs/sql", message |-> [text |-> TITLE_SQL],
             locations |-> << [physicalLocation |->
                 [artifactLocation |-> [uri |-> "src/A.cs"], region |-> [startLine |-> "12"]]] >>],
            [level |-> "none", ruleId |-> "cs/style"],
            [level |-> "warning", locations |-> << [logicalLocation |-> "f"] >>] >>],
        [tool |-> "x"],
        [results |-> << [level |-> "note", message |-> [text |-> TITLE_DOC]] >>] >>]

GrypeSample ==
    [matches |-> <<
        [vulnerability |-> [id |-> "CVE-2024-2", severity |-> "Critical",
                            description |-> TITLE_KEY],
         artifact |-> [name |-> "pkg", version |-> "1.0"]],
        <<>> >>]

\* A SARIF file whose second run has an entry with a string for its message:
\* the first run's finding is collected before .get raises.
SarifBrokenSample ==
    [runs |-> <<
        [results |-> << [level |-> "error", ruleId |-> "cs/xss"] >>],
        [results |-> << [level |-> "warning", message |-> JsonStr("text")] >>] >>]

\* A dependency-scan file whose second match is a string.
GrypeBrokenSample ==
    [matches |-> <<
        [vulnerability |-> [id |-> "CVE-2024-3", severity |-> "High"]],
        JsonStr("match") >>]

TruffleHogSample ==
    [SourceMetadata |-> [Data |-> [Filesystem |-> [file |-> "a.env", line |-> "3"]]],
     DetectorName |-> <<"A", "W", "S">>, hash |-> "1"]

ToolDir(name, sarif, json) ==
    [tool_name |-> name, sarif_files |-> sarif, json_files |-> json]

ScanDir(analysis_dir, vuln_file, analysis_file, tool_dirs) ==
    [has_analysis_dir |-> analysis_dir, vuln_file |-> vuln_file,
     analysis_file |-> analysis_file, tool_dirs |-> tool_dirs]

\* The scan-results directories main is run on.
ScanDirs ==
    { ScanDir(TRUE, JsonList(l), AbsentFile, <<>>) : l \in VulnLists(MaxVulnItems) }
    \cup { ScanDir(TRUE, JsonList([i \in 1..HighBurst |-> DictValue(HighItem)]),
                   AbsentFile, <<>>),
           ScanDir(FALSE, AbsentFile, AbsentFile, <<>>),
           ScanDir(TRUE, MalformedFile, JsonDict([summary |-> "ok"]), <<>>),
           ScanDir(TRUE, JsonDict([id |-> "V1"]), MalformedFile, <<>>),
           ScanDir(TRUE, JsonList(<<ListValue(<<>>), DictValue(HighItem)>>),
                   AbsentFile, <<>>),
           ScanDir(TRUE, AbsentFile, AbsentFile,
                   << ToolDir("secret-scanning", <<>>, <<JsonDict(TruffleHogSample)>>),
                      ToolDir("codeql-results",
                              <<JsonDict(SarifBrokenSample), JsonDict(SarifSample),
                                MalformedFile, JsonList(<<>>)>>,
                              <<JsonDict(GrypeSample)>>) >>),
           ScanDir(FALSE, AbsentFile, AbsentFile,
                   << ToolDir("sca-results", <<>>,
                              << JsonDict(GrypeBrokenSample), JsonDict(GrypeSample),
                                 MalformedFile,
                                 [JsonDict(GrypeSample) EXCEPT !.has_sarif_name = TRUE] >>) >>) }

\* The tool-execution-status maps the CI context supplies.
ToolResultMaps ==
    { [CodeQL |-> "passed", Grype |-> "success"],
      [CodeQL |-> "success"],
      [CodeQL |-> "failed", Grype |-> "passed", Semgrep |-> "passed"] }

----------------------------------------------------------------------------
(* main                                                                    *)

\* args = parser.parse_args(); SecurityGateEvaluator(args.gate_policy)
Init ==
    /\ \E file \in PolicyFiles, dir \in ScanDirs :
          args = [gate_policy |-> file, scan_results |-> dir]
    /\ config = _load_gate_policy(args.gate_policy)
    /\ scan_results = <<>>
    /\ vulnerabilities = <<>>
    /\ gate_status = "UNKNOWN"
    /\ gate_details = <<>>
    /\ gate_results = <<>>
    /\ saved = <<>>
    /\ stdout = <<>>
    /\ exit_code = -1
    /\ clock = 0
    /\ pc = "load"
    /\ ReportIdle /\ HandlerIdle /\ TrackerIdle

\* evaluator.load_scan_results(args.scan_results)
Load ==
    /\ pc = "load"
    /\ LET r == load_scan_results(args.scan_results, vulnerabilities, scan_results)
       IN  /\ vulnerabilities' = r.vulnerabilities
           /\ scan_results' = r.scan_results
    /\ clock' = clock + 1
    /\ pc' = "evaluate"
    /\ UNCHANGED <<report_vars, handler_vars, tracker_vars, args, config, gate_status, gate_details, gate_results, saved, stdout, exit_code>>

\* The CI context stores the tool-execution-status map in
\* scan_results['tool_results'] before the gates are evaluated.
SupplyToolResults ==
    /\ pc = "evaluate"
    /\ "tool_results" \notin DOMAIN scan_results
    /\ \E m \in ToolResultMaps : scan_results' = ("tool_results" :> m) @@ scan_results
    /\ UNCHANGED <<report_vars, handler_vars, tracker_vars, args, config, vulnerabilities, gate_status, gate_details, gate_results,
                   saved, stdout, exit_code, clock, pc>>

\* evaluator.evaluate_security_gates(), up to the assignment of gate_status
\* and gate_details from the rule results.
Evaluate ==
    /\ pc = "evaluate"
    /\ LET r == DetermineGateStatus(vulnerabilities, config, scan_results, clock,
                                    gate_status, gate_details)
       IN  /\ gate_status' = r.gate_status
           /\ gate_details' = r.gate_details
           /\ gate_results' = r.gate_results
           /\ pc' = IF r.raised THEN "except" ELSE "tools"
    /\ clock' = clock + 1
    /\ UNCHANGED <<report_vars, handler_vars, tracker_vars, args, config, scan_results, vulnerabilities, saved, stdout, exit_code>>

\* evaluator.evaluate_security_gates(), the required-tools check that ends it.
RequiredTools ==
    /\ pc = "tools"
    /\ LET r == CheckRequiredTools(config, scan_results, gate_status, gate_details)
       IN  /\ gate_status' = r.gate_status
           /\ gate_details' = r.gate_details
           /\ pc' = IF r.raised THEN "except" ELSE "save"
    /\ UNCHANGED <<report_vars, handler_vars, tracker_vars, args, config, scan_results, vulnerabilities, gate_results, saved, stdout,
                   exit_code, clock>>

\* A save that empties the findings list.
SaveClearsFindings ==
    /\ pc = "save"
    /\ gate_details' = save_evaluation_results(gate_details, gate_status, clock)
    /\ saved' = gate_details'
    /\ pc' = "print"
    /\ vulnerabilities' = <<>>
    /\ clock' = clock + 1
    /\ UNCHANGED <<report_vars, handler_vars, tracker_vars, args, config, scan_results, gate_status, gate_results,
                   stdout, exit_code>>

\* evaluator.save_evaluation_results(args.output_file); writing the file fails
\* or succeeds.
Save ==
    /\ pc = "save"
    /\ gate_details' = save_evaluation_results(gate_details, gate_status, clock)
    /\ \E io_ok \in BOOLEAN :
          IF io_ok
          THEN saved' = gate_details' /\ pc' = "print"
          ELSE saved' = saved /\ pc' = "except"
    /\ clock' = clock + 1
    /\ UNCHANGED <<report_vars, handler_vars, tracker_vars, args, config, scan_results, vulnerabilities, gate_status, gate_results,
                   stdout, exit_code>>

\* The prints and sys.exit that end the try block of main.
Report ==
    /\ pc = "print"
    /\ IF gate_status = "FAILED"
       THEN /\ stdout' = << "SECURITY_GATE_STATUS=FAILED",
                            "CRITICAL_ISSUES=" \o ToString(Get(gate_details, "critical_issues", 0)),
                            "HIGH_ISSUES=" \o ToString(Get(gate_details, "high_issues", 0)) >>
            /\ exit_code' = 1
       ELSE /\ stdout' = << "SECURITY_GATE_STATUS=PASSED" >>
            /\ exit_code' = 0
    /\ pc' = "exit"
    /\ UNCHANGED <<report_vars, handler_vars, tracker_vars, args, config, scan_results, vulnerabilities, gate_status, gate_details,
                   gate_results, saved, clock>>

\* An except branch that reports the error but exits with code 0.
ExceptExitsZero ==
    /\ pc = "except"
    /\ stdout' = << "SECURITY_GATE_STATUS=ERROR" >>
    /\ exit_code' = 0
    /\ pc' = "exit"
    /\ UNCHANGED <<report_vars, handler_vars, tracker_vars, args, config, scan_results, vulnerabilities, gate_status, gate_details,
                   gate_results, saved, clock>>

\* The except branch of main.
Except ==
    /\ pc = "except"
    /\ stdout' = << "SECURITY_GATE_STATUS=ERROR" >>
    /\ exit_code' = 1
    /\ pc' = "exit"
    /\ UNCHANGED <<report_vars, handler_vars, tracker_vars, args, config, scan_results, vulnerabilities, gate_status, gate_details,
                   gate_results, saved, clock>>

Next ==
    \/ Load
    \/ SupplyToolResults
    \/ Evaluate
    \/ RequiredTools
    \/ Save
    \/ Report
    \/ Except

Spec ==
    Init /\ [][Next]_vars

----------------------------------------------------------------------------
(* Properties                                                              *)

\* evaluate_security_gates has been called and has returned or raised.
Evaluated ==
    pc \notin {"load", "evaluate", "tools"}

HasMetrics ==
    "metrics" \in DOMAIN gate_details

\* A finding is allow-listed: its cwe_id is an allow_list entry, or its title
\* contains an entry, compared without regard to case.
AllowListed(v) ==
    \E k \in 1..Len(config.allow_list) :
        \/ Get(v, "cwe_id", NoneT) = config.allow_list[k]
        \/ str_contains(lower(config.allow_list[k]), lower(Get(v, "title", <<>>)))

\* The findings that are neither false positives nor allow-listed.
CountedIdx ==
    { i \in 1..Len(vulnerabilities) :
        /\ ~Get(vulnerabilities[i], "is_false_positive", FALSE)
        /\ ~AllowListed(vulnerabilities[i]) }

SeverityCount(s) ==
    Cardinality({ i \in CountedIdx : Get(vulnerabilities[i], "severity", "low") = s })

SecretCount ==
    Cardinality({ i \in CountedIdx :
                    Get(vulnerabilities[i], "category", "unknown") = "Secret Scanning" })

RECURSIVE SumSeverityCounts(_)
SumSeverityCounts(S) ==
    IF S = {} THEN 0
    ELSE LET s == CHOOSE x \in S : TRUE
         IN  SeverityCount(s) + SumSeverityCounts(S \ {s})

\* The sum of the severity counts over the counted findings.
SeverityCountsSum ==
    SumSeverityCounts({ Get(vulnerabilities[i], "severity", "low") : i \in CountedIdx })

\* Every tool marked required: true has status "passed" or "success" in the
\* tool-execution-status map; a tool missing from the map has not passed.
AllRequiredToolsPassed ==
    LET status == IF "tool_results" \in DOMAIN scan_results
                  THEN scan_results["tool_results"] ELSE <<>>
    IN  \A tool \in DOMAIN config.tool_requirements :
            ("required" \in DOMAIN config.tool_requirements[tool]
                /\ config.tool_requirements[tool]["required"])
            => (tool \in DOMAIN status /\ status[tool] \in {"passed", "success"})

SomeRuleNotPassed ==
    \E i \in 1..Len(gate_results) : ~gate_results[i].passed

\* C1: once evaluate_security_gates has ended, the gate status is FAILED if a
\* rule of policy_rules evaluated to not-passed or a required tool did not
\* pass, and it is PASSED only if every rule passed and all required tools
\* passed.
C1_StatusFollowsRulesAndTools ==
    Evaluated =>
        /\ (SomeRuleNotPassed \/ ~AllRequiredToolsPassed) => gate_status = "FAILED"
        /\ gate_status = "PASSED" => (~SomeRuleNotPassed /\ AllRequiredToolsPassed)

\* C2: for every policy with a high threshold, whatever its policy_rules: the
\* status is PASSED if critical_count = 0, high_count <= the policy's high
\* threshold, secret_count = 0 and all required tools passed, and FAILED if
\* any one of the four is violated.
C2_StatusFollowsFourConditions ==
    (Evaluated /\ "high" \in DOMAIN config.severity_thresholds) =>
        IF /\ SeverityCount("critical") = 0
           /\ SeverityCount("high") <= config.severity_thresholds["high"]
           /\ SecretCount = 0
           /\ AllRequiredToolsPassed
        THEN gate_status = "PASSED"
        ELSE gate_status = "FAILED"

\* C3: every evaluation reaches a decision: once evaluate_security_gates has
\* ended, the status is PASSED or FAILED and the decision object is populated
\* and carries that status, also when all policy rules pass and a required
\* tool did not pass.  Stated for the policies that give a high threshold.
C3_AlwaysReachesDecision ==
    (Evaluated /\ "high" \in DOMAIN config.severity_thresholds) =>
        /\ gate_status \in {"PASSED", "FAILED"}
        /\ "status" \in DOMAIN gate_details
        /\ gate_details["status"] = gate_status

\* C4: total_vulnerabilities, in the metrics map and in the saved output, is
\* the sum of the severity counts over the findings that are neither false
\* positives nor allow-listed.
C4_TotalIsSumOfSeverityCounts ==
    /\ HasMetrics => gate_details["metrics"].total_vulnerabilities = SeverityCountsSum
    /\ saved # <<>> => saved["total_vulnerabilities"] = SeverityCountsSum

\* C5: allow-listed findings, whatever their severity, are excluded from all
\* counts: severity, tool and category counts, secret_count, cve_count and
\* total_vulnerabilities are those of the findings that are neither false
\* positives nor allow-listed.
C5_AllowListedExcludedFromAllCounts ==
    HasMetrics =>
        LET m == gate_details["metrics"]
            tools == { Get(vulnerabilities[i], "tool", "unknown") : i \in CountedIdx }
            cats  == { Get(vulnerabilities[i], "category", "unknown") : i \in CountedIdx }
        IN  /\ m.critical_count = SeverityCount("critical")
            /\ m.high_count = SeverityCount("high")
            /\ m.medium_count = SeverityCount("medium")
            /\ m.low_count = SeverityCount("low")
            /\ DOMAIN m.tool_counts = tools
            /\ \A x \in tools : m.tool_counts[x] = Cardinality(
                   { i \in CountedIdx : Get(vulnerabilities[i], "tool", "unknown") = x })
            /\ DOMAIN m.category_counts = cats
            /\ \A x \in cats : m.category_counts[x] = Cardinality(
                   { i \in CountedIdx : Get(vulnerabilities[i], "category", "unknown") = x })
            /\ m.secret_count = SecretCount
            /\ m.cve_count = Cardinality(
                   { i \in CountedIdx : Get(vulnerabilities[i], "cve_id", None) # None })
            /\ m.total_vulnerabilities = Cardinality(CountedIdx)

\* The condition of a rule is a string that contains none of the four known
\* predicates.
Unrecognized(rule) ==
    LET c == Get(rule, "condition", <<>>)
    IN  /\ c # NoneT
        /\ \A known \in {COND_CRITICAL, COND_HIGH, COND_SECRET, COND_TOOLS} :
               ~str_contains(known, c)

\* C6: a rule whose condition string matches none of the known predicates
\* evaluates to passed whatever the metrics, and is never among the failed
\* rules of a decision.
C6_UnrecognizedRulePasses ==
    /\ \A i \in 1..Len(gate_results) :
           Unrecognized(config.policy_rules[i]) => gate_results[i].passed
    /\ "failed_rules" \in DOMAIN gate_details =>
           \A k \in 1..Len(gate_details["failed_rules"]) :
               LET e == gate_details["failed_rules"][k]
               IN  "condition" \in DOMAIN e => ~Unrecognized(e)

\* An unrecognized rule was evaluated on metrics that hold a critical finding
\* and a secret, and the gate passed.
C6_Witness ==
    /\ gate_status = "PASSED"
    /\ HasMetrics
    /\ gate_details["metrics"].critical_count > 0
    /\ gate_details["metrics"].secret_count > 0
    /\ \E i \in 1..Len(gate_results) :
           Unrecognized(config.policy_rules[i]) /\ gate_results[i].passed

\* C7: a malformed rule (no condition key, or a null condition, which raises
\* during evaluation) evaluates to passed = false with a diagnostic reason, and
\* the status is FAILED.
C7_MalformedRuleFailsClosed ==
    \A i \in 1..Len(gate_results) :
        ("condition" \notin DOMAIN config.policy_rules[i]
            \/ config.policy_rules[i]["condition"] = NoneT)
        => /\ ~gate_results[i].passed
           /\ gate_results[i].reason # ""
           /\ gate_status = "FAILED"

\* The number of rule results up to the i-th that did not pass.
FailedUpTo(i) ==
    Cardinality({ j \in 1..i : ~gate_results[j].passed })

\* C8: in a FAILED decision, failed_rules holds every rule result that did not
\* pass, in policy order (the k-th not-passed rule is its k-th entry), holds no
\* rule that passed, and holds besides them at most the entry for the required
\* tools, at its end; every rule of the policy was evaluated, in order.
C8_FailedRulesCompleteAndOrdered ==
    ("status" \in DOMAIN gate_details /\ gate_details["status"] = "FAILED") =>
        LET fr == gate_details["failed_rules"]
            n  == FailedUpTo(Len(gate_results))
        IN  /\ Len(gate_results) = Len(config.policy_rules)
            /\ \A i \in 1..Len(gate_results) :
                   /\ gate_results[i].name = Get(config.policy_rules[i], "name", "Unknown Rule")
                   /\ gate_results[i].condition = Get(config.policy_rules[i], "condition", <<>>)
                   /\ ~gate_results[i].passed =>
                          (FailedUpTo(i) <= Len(fr) /\ fr[FailedUpTo(i)] = gate_results[i])
            /\ \A k \in 1..Len(fr) : ~fr[k].passed
            /\ Len(fr) \in {n, n + 1}
            /\ Len(fr) = n + 1 => fr[n + 1] = RequiredToolsEntry

\* A FAILED decision in which two rules failed with a passing rule between them.
C8_Witness ==
    /\ "status" \in DOMAIN gate_details
    /\ gate_details["status"] = "FAILED"
    /\ \E i, j, k \in 1..Len(gate_results) :
           /\ i < j /\ j < k
           /\ ~gate_results[i].passed
           /\ gate_results[j].passed
           /\ ~gate_results[k].passed
    /\ Len(gate_details["failed_rules"]) >= 2

\* C9: required_tools_passed is true exactly when every tool marked
\* required: true has the status "passed" or "success" in the
\* tool-execution-status map; tools not marked required are ignored and a
\* required tool missing from the map has not passed.
C9_RequiredToolsPassed ==
    HasMetrics => (gate_details["metrics"].required_tools_passed <=> AllRequiredToolsPassed)

\* required_tools_passed is true with a required tool that passed while a tool
\* that is not required has no passing status.
C9_Witness ==
    /\ HasMetrics
    /\ gate_details["metrics"].required_tools_passed
    /\ "tool_results" \in DOMAIN scan_results
    /\ \E tool \in DOMAIN config.tool_requirements :
           Get(config.tool_requirements[tool], "required", FALSE)
    /\ \E tool \in DOMAIN config.tool_requirements :
           /\ ~Get(config.tool_requirements[tool], "required", FALSE)
           /\ Get(scan_results["tool_results"], tool, "unknown") \notin {"passed", "success"}

HighRulePrefix ==
    <<"h", "i", "g", "h", "_", "c", "o", "u", "n", "t", " ", "<", "=", " ">>

Digits ==
    {"0", "1", "2", "3", "4", "5", "6", "7", "8", "9"}

\* The condition is `high_count <= <threshold>`.
IsHighRule(c) ==
    /\ c # NoneT
    /\ Len(c) > Len(HighRulePrefix)
    /\ SubSeq(c, 1, Len(HighRulePrefix)) = HighRulePrefix
    /\ \A i \in (Len(HighRulePrefix) + 1)..Len(c) : c[i] \in Digits

RECURSIVE DecimalValue(_, _)
DecimalValue(c, n) ==
    IF n = 0 THEN 0
    ELSE 10 * DecimalValue(c, n - 1) + (CHOOSE d \in 0..9 : ToString(d) = c[n])

\* The threshold a high-severity rule is given in the policy.
HighRuleThreshold(c) ==
    DecimalValue(SubSeq(c, Len(HighRulePrefix) + 1, Len(c)), Len(c) - Len(HighRulePrefix))

\* C10: a high-severity rule `high_count <= <threshold>` passes exactly when
\* high_count is at most its threshold, whatever the threshold.
C10_HighRuleUsesItsThreshold ==
    HasMetrics =>
        \A i \in 1..Len(gate_results) :
            IsHighRule(gate_results[i].condition) =>
                (gate_results[i].passed <=>
                    gate_details["metrics"].high_count
                        <= HighRuleThreshold(gate_results[i].condition))

----------------------------------------------------------------------------
(* Exit code and status line of the CLI                                    *)

\* The SECURITY_GATE_STATUS lines among the lines printed.
StatusLines ==
    SelectSeq(stdout, LAMBDA l : l \in { "SECURITY_GATE_STATUS=PASSED",
                                         "SECURITY_GATE_STATUS=FAILED",
                                         "SECURITY_GATE_STATUS=ERROR" })

\* The run went through without an error: the decision was written out.
NoErrorOccurred ==
    saved # <<>>

\* C11: when main has exited it has printed exactly one SECURITY_GATE_STATUS
\* line; the exit code is 0 exactly when that line is PASSED, which is exactly
\* when the gate status is PASSED and no error occurred; it is 1 with the line
\* FAILED when the gate status is FAILED and no error occurred, and 1 with the
\* line ERROR when an error occurred.  Nothing is printed before the exit.
C11_ExitCodeFollowsStatus ==
    /\ pc # "exit" => (stdout = <<>> /\ exit_code = -1)
    /\ pc = "exit" =>
        /\ Len(StatusLines) = 1
        /\ exit_code \in {0, 1}
        /\ exit_code = 0 <=> StatusLines[1] = "SECURITY_GATE_STATUS=PASSED"
        /\ StatusLines[1] = "SECURITY_GATE_STATUS=PASSED"
              <=> (gate_status = "PASSED" /\ NoErrorOccurred)
        /\ StatusLines[1] = "SECURITY_GATE_STATUS=FAILED"
              <=> (gate_status = "FAILED" /\ NoErrorOccurred)
        /\ StatusLines[1] = "SECURITY_GATE_STATUS=ERROR" <=> ~NoErrorOccurred

\* main has exited with code 1 and the line ERROR although the gate status
\* is PASSED: the decision could not be written.
C11_Witness ==
    /\ pc = "exit"
    /\ exit_code = 1
    /\ gate_status = "PASSED"
    /\ stdout = << "SECURITY_GATE_STATUS=ERROR" >>

----------------------------------------------------------------------------
(* Fallback to the default policy                                          *)

\* The gate policy file is missing or is no JSON.
PolicyMissingOrMalformed ==
    args.gate_policy.kind \in {"absent", "malformed"}

\* The gate policy file parses as JSON but lacks a key the evaluator reads.
PolicyLacksKeys ==
    /\ args.gate_policy.kind = "json"
    /\ \/ args.gate_policy.data.type # "dict"
       \/ "severity_thresholds" \notin DOMAIN args.gate_policy.data.dict
       \/ "high" \notin DOMAIN args.gate_policy.data.dict["severity_thresholds"]

\* C12: with a gate policy file that is missing, malformed, or JSON lacking
\* expected keys such as severity_thresholds.high, the evaluator falls back to
\* the default policy where the file cannot be read, and evaluation ends with
\* a PASSED or FAILED decision, not with an error.
C12_PolicyFallbackNeverFailsRun ==
    /\ PolicyMissingOrMalformed => config = _get_default_policy
    /\ (Evaluated /\ (PolicyMissingOrMalformed \/ PolicyLacksKeys)) =>
          /\ gate_status \in {"PASSED", "FAILED"}
          /\ pc # "except"

----------------------------------------------------------------------------
(* Failure isolation of the loader                                         *)

\* Reading or processing a *.sarif file raises inside the loop body.
SarifFileFails(file, tool_name) ==
    \/ file.kind = "malformed"
    \/ file.kind = "json" /\ ~_process_sarif_for_tool(file.data, tool_name).ok

\* Reading or processing a *.json file of a tool directory raises inside the
\* loop body.
JsonFileFails(file, tool_name) ==
    /\ ~file.has_sarif_name
    /\ \/ file.kind = "malformed"
       \/ file.kind = "json" /\ ~_process_json_for_tool(file.data, tool_name).ok

RemoveAt(seq, i) ==
    SubSeq(seq, 1, i - 1) \o SubSeq(seq, i + 1, Len(seq))

\* The scan-results directory without one file.
WithoutSarifFile(dir, d, i) ==
    [dir EXCEPT !.tool_dirs[d].sarif_files = RemoveAt(@, i)]

WithoutJsonFile(dir, d, i) ==
    [dir EXCEPT !.tool_dirs[d].json_files = RemoveAt(@, i)]

WithoutVulnerabilitiesFile(dir) ==
    [dir EXCEPT !.vuln_file = AbsentFile]

\* The findings a fresh evaluator loads from a directory.
LoadedFrom(dir) ==
    load_scan_results(dir, <<>>, <<>>).vulnerabilities

\* C13: after loading, for every result file that failed to parse or to
\* process, the loaded findings are exactly the findings loaded from the same
\* directory without that file: the file contributed nothing, not even the
\* findings read before the error, and the other files' findings are as if it
\* were absent.  The loader has returned, so nothing was raised out of it.
C13_LoadingIsFailureIsolated ==
    pc # "load" =>
        LET dir == args.scan_results
        IN  /\ \A d \in 1..Len(dir.tool_dirs) :
                 /\ \A i \in 1..Len(dir.tool_dirs[d].sarif_files) :
                        SarifFileFails(dir.tool_dirs[d].sarif_files[i],
                                       dir.tool_dirs[d].tool_name)
                        => vulnerabilities = LoadedFrom(WithoutSarifFile(dir, d, i))
                 /\ \A i \in 1..Len(dir.tool_dirs[d].json_files) :
                        JsonFileFails(dir.tool_dirs[d].json_files[i],
                                      dir.tool_dirs[d].tool_name)
                        => vulnerabilities = LoadedFrom(WithoutJsonFile(dir, d, i))
            /\ (dir.has_analysis_dir /\ dir.vuln_file.kind = "malformed")
                  => vulnerabilities = LoadedFrom(WithoutVulnerabilitiesFile(dir))

\* Loading has ended on a directory with a SARIF file that parses but raises
\* part-way through, after a first run with a kept entry, and findings of
\* other files were loaded.
C13_Witness ==
    /\ pc # "load"
    /\ vulnerabilities # <<>>
    /\ \E d \in 1..Len(args.scan_results.tool_dirs) :
          \E i \in 1..Len(args.scan_results.tool_dirs[d].sarif_files) :
             LET file == args.scan_results.tool_dirs[d].sarif_files[i]
             IN  /\ file.kind = "json"
                 /\ file.data.type = "dict"
                 /\ SarifFileFails(file, args.scan_results.tool_dirs[d].tool_name)
                 /\ ~SarifRunRaises(file.data.dict.runs[1])
                 /\ SarifRunFindings(file.data.dict.runs[1], "codeql-results") # <<>>

----------------------------------------------------------------------------
(* Idempotence of aggregation and evaluation                               *)

\* The part of a decision that does not belong to the envelope.
DecisionCore(details) ==
    [status       |-> Get(details, "status", "none"),
     metrics      |-> Get(details, "metrics", <<>>),
     failed_rules |-> Get(details, "failed_rules", <<>>),
     passed_rules |-> Get(details, "passed_rules", <<>>)]

\* evaluate_security_gates raised: main skipped save_evaluation_results, which
\* would have stored a scan_id.
EvaluationRaised ==
    pc \in {"except", "exit"} /\ "scan_id" \notin DOMAIN gate_details

\* C14: once evaluate_security_gates has ended, running it again at a later
\* time on the same findings, policy and tool statuses ends the same way with
\* the same gate status, metrics, per-rule results and failed/passed rule
\* lists; only the timestamp may differ.
C14_EvaluationIsIdempotent ==
    Evaluated =>
        LET again == evaluate_security_gates(vulnerabilities, config, scan_results,
                                             clock + 1, gate_status, gate_details)
        IN  /\ again.gate_status = gate_status
            /\ again.gate_results = gate_results
            /\ DecisionCore(again.gate_details) = DecisionCore(gate_details)
            /\ again.raised <=> EvaluationRaised

\* A FAILED decision with two failed rules has been saved, so gate_details
\* carries the envelope of the first run when the second run starts.
C14_Witness ==
    /\ pc = "print"
    /\ gate_status = "FAILED"
    /\ Len(gate_details["failed_rules"]) >= 2
    /\ gate_details["metrics"].total_vulnerabilities > 0

----------------------------------------------------------------------------
(* Terminal status and frozen decision                                     *)

\* C15: PASSED and FAILED are terminal: a step taken when the gate status is
\* PASSED or FAILED leaves the gate status as it is.
C15_StatusIsTerminal ==
    [][(gate_status \in {"PASSED", "FAILED"} => gate_status' = gate_status)]_vars

\* C16: the decision object is never mutated after it is created: a step
\* taken when gate_details holds a decision leaves every field already
\* present in it with the value it has.
C16_DecisionNeverMutated ==
    [][(\A k \in DOMAIN gate_details :
           k \in DOMAIN gate_details' /\ gate_details'[k] = gate_details[k])]_vars

----------------------------------------------------------------------------
(* Counts of the dashboard generator and of the notification handler       *)

\* Counter(key(v) for v in data) with key = v.get(k, 'unknown'), over data[1..n].
RECURSIVE CounterOf(_, _, _)
CounterOf(data, n, k) ==
    IF n = 0 THEN <<>>
    ELSE Inc(CounterOf(data, n - 1, k), Get(data[n], k, "unknown"))

\* SecurityDashboardGenerator.calculate_metrics on self.vulnerability_data and
\* self.scan_data: the counts and the score it stores in self.metrics.
calculate_metrics(vulnerability_data, scan_data) ==
    LET severity_counts == CounterOf(vulnerability_data, Len(vulnerability_data), "severity")
    IN  [total_vulnerabilities |-> Len(vulnerability_data),
         severity_counts |-> severity_counts,
         tool_counts     |-> CounterOf(vulnerability_data, Len(vulnerability_data), "tool"),
         category_counts |-> CounterOf(vulnerability_data, Len(vulnerability_data), "category"),
         gate_status     |-> Get(Get(scan_data, "gate_evaluation", <<>>),
                                 "gate_status", "UNKNOWN"),
         security_debt_score |->
             CountOf(severity_counts, "critical") * 10 + CountOf(severity_counts, "high") * 5
             + CountOf(severity_counts, "medium") * 2 + CountOf(severity_counts, "low")]

\* One pass of the second loop of SecurityNotificationHandler._load_scan_results
\* on a vulnerabilities.json file: the scan_data it leaves.  An item that is no
\* dict raises in the counting loop, after 'vulnerabilities' and
\* 'total_vulnerabilities' were stored.
LoadVulnerabilitiesFile(scan_data, file) ==
    IF file.kind # "json" THEN scan_data
    ELSE IF file.data.type # "list"
    THEN \* a JSON object: len() counts its keys, and the loop visits the keys
         LET stored == ("vulnerabilities" :> file.data.dict)
                       @@ ("total_vulnerabilities" :> Cardinality(DOMAIN file.data.dict))
                       @@ scan_data
         IN  IF file.data.dict # <<>>
             THEN stored
             ELSE ("severity_counts" :> <<>>) @@ stored
    ELSE LET items == file.data.list
             stored == ("vulnerabilities" :> items)
                       @@ ("total_vulnerabilities" :> Len(items)) @@ scan_data
         IN  IF \E i \in 1..Len(items) : items[i].type # "dict"
             THEN stored
             ELSE ("severity_counts" :>
                       CounterOf([i \in 1..Len(items) |-> items[i].dict], Len(items),
                                 "severity")) @@ stored

\* One pass of the first loop: scan_data.update(gate_data) for a
\* gate-evaluation*.json file.
LoadGateEvaluationFile(scan_data, file) ==
    IF file.kind = "json" /\ file.data.type = "dict"
    THEN file.data.dict @@ scan_data
    ELSE scan_data

RECURSIVE LoadGateEvaluationFiles(_, _, _)
LoadGateEvaluationFiles(scan_data, files, n) ==
    IF n = 0 THEN scan_data
    ELSE LoadGateEvaluationFile(LoadGateEvaluationFiles(scan_data, files, n - 1), files[n])

RECURSIVE LoadVulnerabilitiesFiles(_, _, _)
LoadVulnerabilitiesFiles(scan_data, files, n) ==
    IF n = 0 THEN scan_data
    ELSE LoadVulnerabilitiesFile(LoadVulnerabilitiesFiles(scan_data, files, n - 1), files[n])

\* SecurityNotificationHandler._load_scan_results on the gate-evaluation*.json
\* and vulnerabilities.json files found under scan_results_path, at time now.
_load_scan_results(gate_eval_files, vuln_files, now) ==
    LET initial == [gate_status |-> "UNKNOWN", vulnerabilities |-> <<>>,
                    severity_counts |-> <<>>, total_vulnerabilities |-> 0,
                    scan_timestamp |-> now]
        gated == LoadGateEvaluationFiles(initial, gate_eval_files, Len(gate_eval_files))
    IN  LoadVulnerabilitiesFiles(gated, vuln_files, Len(vuln_files))

\* The evaluator's findings as the vulnerabilities.json the reporting tools read.
VulnerabilitiesAsFile ==
    JsonList([i \in 1..Len(vulnerabilities) |-> DictValue(vulnerabilities[i])])

\* The severity count of the evaluator's metrics.
MetricsCount(s) ==
    gate_details["metrics"][s \o "_count"]

\* C17: for the evaluator's vulnerabilities list, the severity counts and the
\* total of the dashboard generator and of the notification handler are those
\* of the gate evaluator's metrics.
C17_DashboardAndNotificationAgreeWithGate ==
    HasMetrics =>
        LET dashboard == calculate_metrics(vulnerabilities, <<>>)
            handler   == _load_scan_results(<<>>, <<VulnerabilitiesAsFile>>, clock)
        IN  /\ \A s \in {"critical", "high", "medium", "low"} :
                  /\ CountOf(dashboard.severity_counts, s) = MetricsCount(s)
                  /\ CountOf(handler["severity_counts"], s) = MetricsCount(s)
            /\ dashboard.total_vulnerabilities = SeverityCountsSum
            /\ handler["total_vulnerabilities"] = SeverityCountsSum

----------------------------------------------------------------------------
(* Saved gate evaluation output                                            *)

\* The fields of the gate evaluation output.
OutputFields ==
    { "status", "scan_id", "timestamp", "critical_issues", "high_issues",
      "medium_issues", "low_issues", "total_vulnerabilities", "failed_rules",
      "metrics" }

\* C18: the saved gate evaluation output has all the output fields, for a
\* PASSED as well as for a FAILED decision, and its failed_rules is the empty
\* list when the decision is PASSED.
C18_SavedOutputHasAllFields ==
    saved # <<>> =>
        /\ OutputFields \subseteq DOMAIN saved
        /\ saved["status"] = "PASSED" => saved["failed_rules"] = <<>>

----------------------------------------------------------------------------
(* SARIF normalisation                                                     *)

\* What the specification expects of one kept results[] entry: the severity
\* of its level, and the location of its first location's physicalLocation.
ExpectedSarifEntry(result) ==
    LET locations == Get(result, "locations", <<>>)
        physical  == locations # <<>> /\ "physicalLocation" \in DOMAIN locations[1]
    IN  [severity    |-> CASE result.level = "error"   -> "high"
                           [] result.level = "warning" -> "medium"
                           [] result.level = "note"    -> "low",
         file_path   |-> IF physical /\ "artifactLocation" \in DOMAIN locations[1].physicalLocation
                            /\ "uri" \in DOMAIN locations[1].physicalLocation.artifactLocation
                         THEN locations[1].physicalLocation.artifactLocation.uri
                         ELSE None,
         line_number |-> IF physical /\ "region" \in DOMAIN locations[1].physicalLocation
                            /\ "startLine" \in DOMAIN locations[1].physicalLocation.region
                         THEN locations[1].physicalLocation.region.startLine
                         ELSE None]

\* The entries of runs[1..n] with a level of error, warning or note, in order.
RECURSIVE ExpectedOfRuns(_, _)
ExpectedOfRuns(runs, n) ==
    IF n = 0 THEN <<>>
    ELSE LET results == IF "results" \in DOMAIN runs[n] THEN runs[n].results ELSE <<>>
             kept == SelectSeq(results, LAMBDA r : "level" \in DOMAIN r
                                           /\ r.level \in {"error", "warning", "note"})
         IN  ExpectedOfRuns(runs, n - 1)
                 \o [i \in 1..Len(kept) |-> ExpectedSarifEntry(kept[i])]

\* The same for the SARIF files files[1..n] of a tool directory that were
\* read and processed without error.
RECURSIVE ExpectedOfSarifFiles(_, _, _)
ExpectedOfSarifFiles(files, n, tool_name) ==
    IF n = 0 THEN <<>>
    ELSE ExpectedOfSarifFiles(files, n - 1, tool_name)
         \o (IF SarifFileFails(files[n], tool_name) \/ files[n].kind # "json"
                \/ "runs" \notin DOMAIN files[n].data.dict
             THEN <<>>
             ELSE ExpectedOfRuns(files[n].data.dict.runs, Len(files[n].data.dict.runs)))

\* The same for the tool directories tool_dirs[1..n] of one tool.
RECURSIVE ExpectedOfToolDirs(_, _, _)
ExpectedOfToolDirs(tool_dirs, n, tool_name) ==
    IF n = 0 THEN <<>>
    ELSE ExpectedOfToolDirs(tool_dirs, n - 1, tool_name)
         \o (IF tool_dirs[n].tool_name = tool_name
             THEN ExpectedOfSarifFiles(tool_dirs[n].sarif_files,
                                       Len(tool_dirs[n].sarif_files), tool_name)
             ELSE <<>>)

\* The loaded findings of a tool, as severity and location.
FindingsOfTool(tool_name) ==
    LET mine == SelectSeq(vulnerabilities, LAMBDA v : v.tool = tool_name)
    IN  [i \in 1..Len(mine) |->
            [severity |-> mine[i].severity, file_path |-> mine[i].file_path,
             line_number |-> mine[i].line_number]]

\* C19: after loading, the findings of each tool are, one for one and in
\* order, the results[] entries of the runs of its SARIF files whose level is
\* error, warning or note, with severity high, medium or low respectively, and
\* with the file path and line of the first location's physicalLocation when
\* there is one and none otherwise; entries with another level or without a
\* level left no finding.
C19_SarifNormalisation ==
    pc # "load" =>
        \A k \in 1..Len(ToolNames) :
            FindingsOfTool(ToolNames[k])
                = ExpectedOfToolDirs(args.scan_results.tool_dirs,
                                     Len(args.scan_results.tool_dirs), ToolNames[k])

\* A SARIF file with an error entry that has a physical location, a warning
\* entry without one, an entry of level none and a note entry was loaded.
C19_Witness ==
    /\ pc # "load"
    /\ \E d \in 1..Len(args.scan_results.tool_dirs) :
          \E i \in 1..Len(args.scan_results.tool_dirs[d].sarif_files) :
              args.scan_results.tool_dirs[d].sarif_files[i] = JsonDict(SarifSample)
    /\ FindingsOfTool("codeql-results")
          = << [severity |-> "high", file_path |-> "src/A.cs", line_number |-> "12"],
               [severity |-> "medium", file_path |-> None, line_number |-> None],
               [severity |-> "low", file_path |-> None, line_number |-> None] >>

----------------------------------------------------------------------------
(* Secret-scanner results                                                  *)

\* The secret reports among the JSON files of the secret-scanning tool
\* directories: a JSON object with SourceMetadata, in a file the loader reads.
SecretReports ==
    LET dirs == args.scan_results.tool_dirs
    IN  UNION { { <<d, i>> : i \in { j \in 1..Len(dirs[d].json_files) :
                      /\ dirs[d].tool_name = "secret-scanning"
                      /\ dirs[d].json_files[j].kind = "json"
                      /\ ~dirs[d].json_files[j].has_sarif_name
                      /\ dirs[d].json_files[j].data.type = "dict"
                      /\ "SourceMetadata" \in DOMAIN dirs[d].json_files[j].data.dict } } :
                d \in 1..Len(dirs) }

\* The loaded findings of category Secret Scanning, severity high and
\* cwe_id CWE-798.
SecretFindings ==
    { i \in 1..Len(vulnerabilities) :
        /\ Get(vulnerabilities[i], "category", "unknown") = "Secret Scanning"
        /\ Get(vulnerabilities[i], "severity", "low") = "high"
        /\ Get(vulnerabilities[i], "cwe_id", NoneT) = <<"C", "W", "E", "-", "7", "9", "8">> }

\* C20: after loading, every secret reported in a secret-scanner JSON file of
\* a tool directory has become a finding of category Secret Scanning,
\* severity high and cwe_id CWE-798, and once the metrics are computed these
\* findings are counted in secret_count.
C20_SecretsBecomeFindings ==
    pc # "load" =>
        /\ Cardinality(SecretFindings) >= Cardinality(SecretReports)
        /\ HasMetrics => gate_details["metrics"].secret_count >= Cardinality(SecretReports)

----------------------------------------------------------------------------
(* Consistency of the decision                                             *)

\* evaluate_security_gates has returned without raising.
ReturnedNormally ==
    \/ pc \in {"save", "print"}
    \/ pc \in {"except", "exit"} /\ ~EvaluationRaised

\* C24: whenever evaluate_security_gates has returned normally,
\* gate_details['status'] is the gate status, and the gate status is FAILED
\* exactly when gate_details has a failed_rules list that is not empty.
C24_DecisionIsConsistent ==
    ReturnedNormally =>
        /\ gate_details["status"] = gate_status
        /\ gate_status = "FAILED"
              <=> ("failed_rules" \in DOMAIN gate_details
                      /\ gate_details["failed_rules"] # <<>>)

\* A rule failed and a required tool did not pass: the decision is FAILED with
\* the entry of the required tools behind the failed rule.
C24_Witness ==
    /\ pc = "save"
    /\ gate_status = "FAILED"
    /\ Len(gate_details["failed_rules"]) >= 2
    /\ gate_details["failed_rules"][Len(gate_details["failed_rules"])] = RequiredToolsEntry

----------------------------------------------------------------------------
(* The tool-execution-status map                                           *)

\* The policy marks at least one tool as required.
SomeToolRequired ==
    \E tool \in DOMAIN config.tool_requirements :
        Get(config.tool_requirements[tool], "required", FALSE)

\* C25: load_scan_results does not write scan_results['tool_results'], and
\* when a run in which nothing else supplied the map has ended evaluation
\* under a policy with a required tool, the gate status is not PASSED.
C25_ToolResultsNeverLoaded ==
    [][(/\ pc = "load" => "tool_results" \notin DOMAIN scan_results'
        /\ (pc' \notin {"load", "evaluate", "tools"} /\ SomeToolRequired
               /\ "tool_results" \notin DOMAIN scan_results')
           => gate_status' # "PASSED")]_vars

\* Evaluation under the default policy has ended on a run without findings
\* and without tool statuses: no rule but the required tools failed.
C25_Witness ==
    /\ pc = "save"
    /\ config = _get_default_policy
    /\ vulnerabilities = <<>>
    /\ "tool_results" \notin DOMAIN scan_results
    /\ gate_status = "FAILED"

----------------------------------------------------------------------------
(* Monotonicity of the decision in the findings                            *)

\* The status evaluate_security_gates ends with on a findings list and a
\* policy, with the tool statuses of the run.
StatusOf(vulns, cfg) ==
    evaluate_security_gates(vulns, cfg, scan_results, clock, "UNKNOWN", <<>>).gate_status

\* The findings that may be added.
ExtraFindings ==
    { _create_vulnerability_from_data(v) : v \in VulnItems \cup {HighItem} }

\* evaluate_security_gates has just returned (main is about to save) or just
\* raised (main is in its except branch, nothing saved).
EvaluationJustEnded ==
    \/ pc = "save"
    \/ pc = "except" /\ "gate_status" \notin DOMAIN gate_details

\* C26: when evaluation has ended, for the same policy and tool statuses:
\* with any finding added to the list the status is not PASSED if it is FAILED;
\* with any finding of the list marked false positive, or allow-listed by its
\* cwe_id or its title, the status is not FAILED if it is PASSED.
C26_DecisionIsMonotone ==
    EvaluationJustEnded =>
        /\ gate_status = "FAILED" =>
              \A v \in ExtraFindings :
                  StatusOf(Append(vulnerabilities, v), config) # "PASSED"
        /\ gate_status = "PASSED" =>
              \A i \in 1..Len(vulnerabilities) :
                  /\ StatusOf([vulnerabilities EXCEPT
                                   ![i] = ("is_false_positive" :> TRUE) @@ @],
                              config) # "FAILED"
                  /\ StatusOf(vulnerabilities,
                              [config EXCEPT !.allow_list =
                                   Append(@, Get(vulnerabilities[i], "title", <<>>))])
                         # "FAILED"
                  /\ Get(vulnerabilities[i], "cwe_id", NoneT) # NoneT =>
                        StatusOf(vulnerabilities,
                                 [config EXCEPT !.allow_list =
                                      Append(@, vulnerabilities[i].cwe_id)]) # "FAILED"

\* Evaluation has ended FAILED on a list with a counted critical finding.
C26_Witness ==
    /\ pc = "save"
    /\ gate_status = "FAILED"
    /\ HasMetrics
    /\ gate_details["metrics"].critical_count > 0

----------------------------------------------------------------------------
(* Frame of evaluation and saving                                          *)

\* s is t with items appended.
IsPrefix(s, t) ==
    Len(s) <= Len(t) /\ SubSeq(t, 1, Len(s)) = s

\* C27: the loaded policy never changes; the findings list changes only in
\* load_scan_results, which appends to it; evaluate_security_gates and
\* save_evaluation_results leave the findings list and scan_results as they
\* are.
C27_EvaluationLeavesInputsUnchanged ==
    [][(/\ config' = config
        /\ IsPrefix(vulnerabilities, vulnerabilities')
        /\ vulnerabilities' # vulnerabilities => pc = "load"
        /\ (pc \in {"tools", "save"} \/ (pc = "evaluate" /\ pc' # "evaluate"))
              => (scan_results' = scan_results /\ vulnerabilities' = vulnerabilities))]_vars

\* A decision on loaded findings has been saved.
C27_Witness ==
    /\ pc = "print"
    /\ vulnerabilities # <<>>
    /\ saved # <<>>

----------------------------------------------------------------------------
(* The top findings of the dashboard and of the triage summary             *)

\* ord(c) of the characters the titles are written in.
ord(c) ==
    IF c = " " THEN 32
    ELSE IF \E i \in 1..26 : UpperCase[i] = c
    THEN 64 + (CHOOSE i \in 1..26 : UpperCase[i] = c)
    ELSE 96 + (CHOOSE i \in 1..26 : LowerCase[i] = c)

\* a < b for two Python tuples of integers, or two strings given by their
\* code points: the first difference decides, a proper prefix is smaller.
RECURSIVE TupleLess(_, _)
TupleLess(a, b) ==
    IF b = <<>> THEN FALSE
    ELSE IF a = <<>> THEN TRUE
    ELSE IF Head(a) # Head(b) THEN Head(a) < Head(b)
    ELSE TupleLess(Tail(a), Tail(b))

\* sorted(items, key=..., reverse=True), keys[i] being the key of items[i]:
\* descending keys, and items of equal key in their original order.
sorted_reverse(items, keys) ==
    LET n == Len(items)
        position(i) ==
            1 + Cardinality({j \in 1..n : \/ TupleLess(keys[i], keys[j])
                                          \/ keys[j] = keys[i] /\ j < i})
    IN  [p \in 1..n |-> items[CHOOSE i \in 1..n : position(i) = p]]

\* items[:limit]
Slice(items, limit) ==
    SubSeq(items, 1, IF Len(items) < limit THEN Len(items) ELSE limit)

\* severity_order.get(v.get('severity', 'low'), 0), the same table being
\* severity_priority in the triage summary.
severity_order(v) ==
    LET severity == Get(v, "severity", "low")
    IN  CASE severity = "critical" -> 4
          [] severity = "high"     -> 3
          [] severity = "medium"   -> 2
          [] severity = "low"      -> 1
          [] OTHER                 -> 0

TOP_VULNERABILITIES_LIMIT ==
    10

TRIAGE_TOP_LIMIT ==
    10

\* The sort key of _get_top_vulnerabilities with the title left out.
SeverityKey(v) ==
    << severity_order(v) >>

\* The sort key of _get_top_vulnerabilities: (severity rank, title).
SeverityTitleKey(v) ==
    << severity_order(v) >> \o [i \in 1..Len(Get(v, "title", <<>>)) |-> ord(v.title[i])]

\* SecurityDashboardGenerator._format_location
_format_location(vuln) ==
    LET file_path == Get(vuln, "file_path", <<>>)
        line_number == Get(vuln, "line_number", NoneT)
    IN  IF Truthy(file_path) /\ Truthy(line_number) THEN << file_path, ":", line_number >>
        ELSE IF Truthy(file_path) THEN file_path
        ELSE "N/A"

\* SecurityDashboardGenerator._get_top_vulnerabilities(limit) on
\* self.vulnerability_data.
_get_top_vulnerabilities(vulnerability_data, limit) ==
    LET picked == Slice(sorted_reverse(vulnerability_data,
                            [i \in 1..Len(vulnerability_data) |->
                                SeverityTitleKey(vulnerability_data[i])]), limit)
    IN  [i \in 1..Len(picked) |->
            [severity |-> Get(picked[i], "severity", "unknown"),
             title    |-> Get(picked[i], "title", <<"U", "n", "k", "n", "o", "w", "n", " ", "v", "u", "l", "n", "e", "r", "a", "b", "i", "l", "i", "t", "y">>),
             tool     |-> Get(picked[i], "tool", "unknown"),
             category |-> Get(picked[i], "category", "unknown"),
             location |-> _format_location(picked[i])]]

\* generate_triage_content: sorted_vulns[:10], the findings listed under
\* "Top Priority Vulnerabilities".
TriageTopVulnerabilities(vulns) ==
    IF vulns = <<>> THEN <<>>
    ELSE Slice(sorted_reverse(vulns, [i \in 1..Len(vulns) |-> SeverityKey(vulns[i])]),
               TRIAGE_TOP_LIMIT)

MaxReportItems ==
    3

\* The findings drawn for the reports.
ReportItems ==
    { [id |-> "R1", title |-> TITLE_SQL, severity |-> "critical", tool |-> "CodeQL",
       category |-> "SAST"],
      [id |-> "R2", title |-> TITLE_DOC, severity |-> "high", tool |-> "Semgrep",
       category |-> "SAST"],
      [id |-> "R3", title |-> TITLE_KEY, severity |-> "high", tool |-> "TruffleHog",
       category |-> "Secret Scanning"],
      [id |-> "R4", title |-> TITLE_SQL, severity |-> "medium", tool |-> "CodeQL",
       category |-> "SAST"],
      [id |-> "R5", title |-> TITLE_KEY, severity |-> "low", tool |-> "TruffleHog",
       category |-> "Secret Scanning"] }

\* A list longer than the limit, its only critical finding last.
LongReport ==
    [i \in 1..(HighBurst + 1) |->
        IF i = HighBurst + 1
        THEN [id |-> "R1", title |-> TITLE_SQL, severity |-> "critical", tool |-> "CodeQL",
              category |-> "SAST"]
        ELSE HighItem]

ReportLists ==
    UNION {[1..n -> ReportItems] : n \in 0..MaxReportItems} \cup {LongReport}

\* Both generators are run on one vulnerabilities.json.
InitReport ==
    /\ EvaluatorIdle /\ HandlerIdle /\ TrackerIdle
    /\ report_findings \in ReportLists
    /\ top_vulnerabilities = <<>>
    /\ sorted_vulns = <<>>
    /\ report_pc = {}

\* calculate_metrics: 'top_vulnerabilities': self._get_top_vulnerabilities(10)
CalculateMetrics ==
    /\ "dashboard" \notin report_pc
    /\ top_vulnerabilities' = _get_top_vulnerabilities(report_findings,
                                                       TOP_VULNERABILITIES_LIMIT)
    /\ report_pc' = report_pc \cup {"dashboard"}
    /\ UNCHANGED <<evaluator_vars, handler_vars, tracker_vars, report_findings, sorted_vulns>>

\* generate_triage_content, the top priority section.
GenerateTriageContent ==
    /\ "triage" \notin report_pc
    /\ sorted_vulns' = TriageTopVulnerabilities(report_findings)
    /\ report_pc' = report_pc \cup {"triage"}
    /\ UNCHANGED <<evaluator_vars, handler_vars, tracker_vars, report_findings,
                   top_vulnerabilities>>

NextReport ==
    \/ CalculateMetrics
    \/ GenerateTriageContent

SpecReport ==
    InitReport /\ [][NextReport]_vars

\* The rank the reporting contract gives a severity.
SeverityRank(severity) ==
    CASE severity = "critical" -> 4
      [] severity = "high"     -> 3
      [] severity = "medium"   -> 2
      [] severity = "low"      -> 1
      [] OTHER                 -> 0

TitleCodes(title) ==
    [i \in 1..Len(title) |-> ord(title[i])]

\* list holds the min(limit, n) highest-ranked entries of findings, by
\* descending rank, entries of one severity by ascending title.
IsTopList(list, findings, limit) ==
    /\ Len(list) = IF Len(findings) < limit THEN Len(findings) ELSE limit
    /\ \A r \in 0..4 :
          LET above(l) == Cardinality({i \in 1..Len(l) : SeverityRank(l[i].severity) > r})
          IN  above(list) = IF above(findings) < limit THEN above(findings) ELSE limit
    /\ \A i \in 1..(Len(list) - 1) :
          /\ SeverityRank(list[i].severity) >= SeverityRank(list[i + 1].severity)
          /\ list[i].severity = list[i + 1].severity
                => ~TupleLess(TitleCodes(list[i + 1].title), TitleCodes(list[i].title))

\* C21: the top list of the dashboard and the one of the triage summary hold
\* the min(10, n) highest-ranked findings, ordered by severity rank descending
\* and, within one severity, by title ascending.
C21_TopListOrder ==
    /\ "dashboard" \in report_pc => IsTopList(top_vulnerabilities, report_findings, 10)
    /\ "triage" \in report_pc => IsTopList(sorted_vulns, report_findings, 10)

----------------------------------------------------------------------------
(* security-notification-handler.py                                        *)

HIGH_COUNT_LIMIT ==
    5

MEDIUM_COUNT_LIMIT ==
    10

\* _determine_notification_requirements with high_count >= 5 for the test of
\* line 117.
_determine_notification_requirements_from_five(gate_result, scan_data) ==
    LET severity_counts == Get(scan_data, "severity_counts", <<>>)
    IN  IF gate_result = "failure"
        THEN IF Get(severity_counts, "critical", 0) > 0
             THEN [urgency |-> "critical", channels |-> <<"email", "slack", "teams", "webhook">>]
             ELSE [urgency |-> "high", channels |-> <<"email", "slack", "webhook">>]
        ELSE IF Get(severity_counts, "high", 0) >= HIGH_COUNT_LIMIT
        THEN [urgency |-> "high", channels |-> <<"email", "slack">>]
        ELSE IF Get(severity_counts, "medium", 0) > MEDIUM_COUNT_LIMIT
        THEN [urgency |-> "medium", channels |-> <<"slack", "webhook">>]
        ELSE [urgency |-> "info", channels |-> <<"webhook">>]

\* SecurityNotificationHandler._determine_notification_requirements: the
\* (urgency, channels) pair it returns.
_determine_notification_requirements(gate_result, scan_data) ==
    LET severity_counts == Get(scan_data, "severity_counts", <<>>)
    IN  IF gate_result = "failure"
        THEN IF Get(severity_counts, "critical", 0) > 0
             THEN [urgency |-> "critical", channels |-> <<"email", "slack", "teams", "webhook">>]
             ELSE [urgency |-> "high", channels |-> <<"email", "slack", "webhook">>]
        ELSE IF Get(severity_counts, "high", 0) > HIGH_COUNT_LIMIT
        THEN [urgency |-> "high", channels |-> <<"email", "slack">>]
        ELSE IF Get(severity_counts, "medium", 0) > MEDIUM_COUNT_LIMIT
        THEN [urgency |-> "medium", channels |-> <<"slack", "webhook">>]
        ELSE [urgency |-> "info", channels |-> <<"webhook">>]

\* SecurityNotificationHandler._load_channel_configs; a configuration is given
\* as the dict json.loads makes of it, <<>> when the option is absent.
_load_channel_configs(email_config, slack_config, webhook_url) ==
    LET email   == IF email_config # <<>> THEN [email |-> email_config] ELSE <<>>
        slack   == IF slack_config # <<>> THEN [slack |-> slack_config] ELSE <<>>
        webhook == IF Truthy(webhook_url) THEN [webhook |-> [url |-> webhook_url]] ELSE <<>>
    IN  email @@ slack @@ webhook

\* What calling self.notification_channels[channel](scan_data, urgency, config)
\* comes to.  Every sender wraps its whole body in try/except Exception and
\* logs, so none raises.  The module never imports os: reaching os.getenv
\* raises NameError inside that try, which is every call of the e-mail sender
\* and every call of the others whose config lacks the URL.  With a URL,
\* requests.post and raise_for_status succeed or raise.
SendOutcome(channel, channel_config, post_raises) ==
    LET url == CASE channel = "slack"   -> Get(channel_config, "webhook_url", NoneT)
                 [] channel = "teams"   -> Get(channel_config, "webhook_url", NoneT)
                 [] channel = "webhook" -> Get(channel_config, "url", NoneT)
                 [] OTHER               -> NoneT
    IN  IF channel = "email" THEN "logged"
        ELSE IF ~Truthy(url) THEN "logged"
        ELSE IF channel \in post_raises THEN "logged"
        ELSE "delivered"

\* The keys of self.notification_channels.
notification_channels ==
    {"email", "slack", "teams", "webhook"}

\* vulnerabilities.json with the given numbers of critical, high and medium
\* findings.
CountedVulnerabilitiesFile(critical, high, medium) ==
    JsonList([i \in 1..(critical + high + medium) |->
                 DictValue([severity |-> IF i <= critical THEN "critical"
                                         ELSE IF i <= critical + high THEN "high"
                                         ELSE "medium"])])

MaxCritical ==
    1

WEBHOOK_URL ==
    <<"h", "t", "t", "p", "s", ":", "/", "/", "h", "/", "x">>

\* The runs of the handler drawn.  entry "script" is the command line
\* (python security-notification-handler.py ...), entry "call" is
\* process_notifications applied to a handler object.  slack_config is the
\* parsed --slack-config, <<>> when the option is not given.
HandlerRuns ==
    [entry : {"script", "call"},
     gate_result : {"success", "failure"},
     vulnerabilities_file :
         {CountedVulnerabilitiesFile(c, h, m) :
             c \in 0..MaxCritical,
             h \in {0, HIGH_COUNT_LIMIT, HIGH_COUNT_LIMIT + 1},
             m \in {0, MEDIUM_COUNT_LIMIT, MEDIUM_COUNT_LIMIT + 1}},
     webhook_url : {NoneT, WEBHOOK_URL},
     slack_config : {<<>>, [webhook_url |-> WEBHOOK_URL]},
     post_raises : SUBSET {"slack", "webhook"}]

InitHandler ==
    /\ EvaluatorIdle /\ ReportIdle /\ TrackerIdle
    /\ handler_args \in HandlerRuns
    /\ handler_scan_data = <<>>
    /\ urgency = ""
    /\ channels = <<>>
    /\ attempted = <<>>
    /\ delivered = {}
    /\ handler_exit_code = -1
    /\ handler_pc = IF handler_args.entry = "script" THEN "import" ELSE "process"

\* The import statements of lines 7-18, run before main: email.mime.text has
\* no name MimeText and email.mime.multipart none MimeMultipart (the classes
\* are MIMEText and MIMEMultipart), so line 16 raises ImportError and the
\* interpreter ends with status 1.
ImportModules ==
    /\ handler_pc = "import"
    /\ handler_exit_code' = 1
    /\ handler_pc' = "exit"
    /\ UNCHANGED <<evaluator_vars, report_vars, tracker_vars, handler_args, handler_scan_data,
                   urgency, channels, attempted, delivered>>

\* process_notifications, up to the loop over the channels.
ProcessNotifications ==
    /\ handler_pc = "process"
    /\ handler_scan_data' = _load_scan_results(<<>>, <<handler_args.vulnerabilities_file>>, 0)
    /\ LET r == _determine_notification_requirements(handler_args.gate_result,
                                                     handler_scan_data')
       IN  urgency' = r.urgency /\ channels' = r.channels
    /\ handler_pc' = "send"
    /\ UNCHANGED <<evaluator_vars, report_vars, tracker_vars, handler_args, attempted,
                   delivered, handler_exit_code>>

\* One pass of the loop of lines 50-59.
SendNotification ==
    /\ handler_pc = "send"
    /\ Len(attempted) < Len(channels)
    /\ LET channel == channels[Len(attempted) + 1]
           channel_configs == _load_channel_configs(<<>>, handler_args.slack_config,
                                                    handler_args.webhook_url)
       IN  IF channel \in notification_channels
           THEN /\ attempted' = Append(attempted, channel)
                /\ delivered' =
                      IF SendOutcome(channel, Get(channel_configs, channel, <<>>),
                                     handler_args.post_raises) = "delivered"
                      THEN delivered \cup {channel}
                      ELSE delivered
           ELSE UNCHANGED <<attempted, delivered>>
    /\ UNCHANGED <<evaluator_vars, report_vars, tracker_vars, handler_args, handler_scan_data,
                   urgency, channels, handler_exit_code, handler_pc>>

\* process_notifications returns once the loop is over.
ReturnFromProcess ==
    /\ handler_pc = "send"
    /\ Len(attempted) = Len(channels)
    /\ handler_pc' = "returned"
    /\ UNCHANGED <<evaluator_vars, report_vars, tracker_vars, handler_args, handler_scan_data,
                   urgency, channels, attempted, delivered, handler_exit_code>>

NextHandler ==
    \/ ImportModules
    \/ ProcessNotifications
    \/ SendNotification
    \/ ReturnFromProcess

SpecHandler ==
    InitHandler /\ [][NextHandler]_vars

\* The count the handler reads for a severity.
HandlerCount(severity) ==
    Get(Get(handler_scan_data, "severity_counts", <<>>), severity, 0)

RequirementsDetermined ==
    handler_pc \in {"send", "returned"}

\* C22: the urgency is critical if the gate failed and critical_count > 0;
\* otherwise high if the gate failed or high_count > 5; otherwise medium if
\* medium_count > 10; otherwise info.
C22_UrgencyPriority ==
    RequirementsDetermined =>
        LET failed == handler_args.gate_result = "failure"
        IN  urgency = IF failed /\ HandlerCount("critical") > 0 THEN "critical"
                      ELSE IF failed \/ HandlerCount("high") > 5 THEN "high"
                      ELSE IF HandlerCount("medium") > 10 THEN "medium"
                      ELSE "info"

\* The gate passed with exactly 5 high and 11 medium findings: the urgency is
\* medium.
C22_Witness ==
    /\ RequirementsDetermined
    /\ handler_args.gate_result = "success"
    /\ HandlerCount("high") = 5
    /\ HandlerCount("medium") = 11
    /\ urgency = "medium"

\* The channels selected for the run's gate result and findings.
SelectedChannels ==
    _determine_notification_requirements(
        handler_args.gate_result,
        _load_scan_results(<<>>, <<handler_args.vulnerabilities_file>>, 0)).channels

\* C23: whatever sends fail, once the handler has ended every selected channel
\* was attempted, and the handler process ended with exit code 0.
C23_FanOutIsBestEffort ==
    handler_pc \in {"returned", "exit"} =>
        /\ \A i \in 1..Len(SelectedChannels) :
              \E j \in 1..Len(attempted) : attempted[j] = SelectedChannels[i]
        /\ handler_args.entry = "script" => handler_exit_code = 0

----------------------------------------------------------------------------
(* certification-tracker.py                                                *)
(*                                                                         *)
(* A table is the sequence of its rows in insertion order; of the students *)
(* and courses tables only the primary keys are kept.  An Optional or      *)
(* NULL-able value is <<>> when absent and <<v>> when present.  A uuid4 is *)
(* the text "e" or "c" followed by the number of the row it names: it      *)
(* differs from every id already in the table.                             *)

TCU_COMPLETED_COURSES ==
    3

TCA_COMPLETED_COURSES ==
    8

TCE_COMPLETED_COURSES ==
    15

\* SELECT COUNT(*) FROM enrollments WHERE student_id = ? AND status = 'completed'
CompletedCount(enrollment_rows, student_id) ==
    Cardinality({i \in 1..Len(enrollment_rows) :
                    /\ enrollment_rows[i].student_id = student_id
                    /\ enrollment_rows[i].status = "completed"})

\* SELECT certification_id FROM certifications WHERE student_id = ? AND
\* certification_level = ? finds a row.
HasCertification(certification_rows, student_id, level) ==
    \E i \in 1..Len(certification_rows) :
        /\ certification_rows[i].student_id = student_id
        /\ certification_rows[i].certification_level = level

\* _verify_certification_prerequisites without the test for the TCE
\* certification in the instructor branch.
_verify_certification_prerequisites_open_tci(enrollment_rows, certification_rows, student_id, level) ==
    CASE level = "TCU" ->
            CompletedCount(enrollment_rows, student_id) >= TCU_COMPLETED_COURSES
      [] level = "TCA" ->
            /\ HasCertification(certification_rows, student_id, "TCU")
            /\ CompletedCount(enrollment_rows, student_id) >= TCA_COMPLETED_COURSES
      [] level = "TCE" ->
            /\ HasCertification(certification_rows, student_id, "TCA")
            /\ CompletedCount(enrollment_rows, student_id) >= TCE_COMPLETED_COURSES
      [] level = "TCI" -> TRUE
      [] OTHER -> FALSE

\* TiXLCertificationTracker._verify_certification_prerequisites
_verify_certification_prerequisites(enrollment_rows, certification_rows, student_id, level) ==
    CASE level = "TCU" ->
            CompletedCount(enrollment_rows, student_id) >= TCU_COMPLETED_COURSES
      [] level = "TCA" ->
            /\ HasCertification(certification_rows, student_id, "TCU")
            /\ CompletedCount(enrollment_rows, student_id) >= TCA_COMPLETED_COURSES
      [] level = "TCE" ->
            /\ HasCertification(certification_rows, student_id, "TCA")
            /\ CompletedCount(enrollment_rows, student_id) >= TCE_COMPLETED_COURSES
      [] level = "TCI" ->
            HasCertification(certification_rows, student_id, "TCE")
      [] OTHER -> FALSE

\* TiXLCertificationTracker.enroll_student: the enrollments table it leaves
\* and the value it returns.
enroll_student(student_rows, course_rows, enrollment_rows, student_id, course_id) ==
    LET enrollment_id == "e" \o ToString(Len(enrollment_rows) + 1)
        existing == {i \in 1..Len(enrollment_rows) :
                        /\ enrollment_rows[i].student_id = student_id
                        /\ enrollment_rows[i].course_id = course_id
                        /\ enrollment_rows[i].status # "withdrawn"}
    IN  IF student_id \notin student_rows \/ course_id \notin course_rows
        THEN [enrollments |-> enrollment_rows, result |-> None]
        ELSE IF existing # {}
        THEN \* fetchone(): the first matching row
             [enrollments |-> enrollment_rows,
              result |-> enrollment_rows[CHOOSE i \in existing :
                                            \A j \in existing : i <= j].enrollment_id]
        ELSE [enrollments |->
                 Append(enrollment_rows,
                        [enrollment_id |-> enrollment_id, student_id |-> student_id,
                         course_id |-> course_id, completion_date |-> <<>>,
                         progress_percentage |-> 0, grade |-> <<>>,
                         status |-> "enrolled"]),
              result |-> enrollment_id]

\* TiXLCertificationTracker.update_student_progress; status is <<>> for None,
\* else <<value>>.
update_student_progress(enrollment_rows, enrollment_id, progress, status) ==
    [enrollments |->
        [i \in 1..Len(enrollment_rows) |->
            IF enrollment_rows[i].enrollment_id # enrollment_id THEN enrollment_rows[i]
            ELSE IF status # <<>>
            THEN [enrollment_rows[i] EXCEPT !.progress_percentage = progress,
                                            !.status = status[1]]
            ELSE [enrollment_rows[i] EXCEPT !.progress_percentage = progress]],
     result |-> \E i \in 1..Len(enrollment_rows) :
                   enrollment_rows[i].enrollment_id = enrollment_id]

\* TiXLCertificationTracker.complete_course
complete_course(enrollment_rows, enrollment_id, grade, completion_date) ==
    [enrollments |->
        [i \in 1..Len(enrollment_rows) |->
            IF enrollment_rows[i].enrollment_id # enrollment_id THEN enrollment_rows[i]
            ELSE [enrollment_rows[i] EXCEPT !.status = "completed",
                                            !.completion_date = <<completion_date>>,
                                            !.grade = <<grade>>,
                                            !.progress_percentage = 100]],
     result |-> \E i \in 1..Len(enrollment_rows) :
                   enrollment_rows[i].enrollment_id = enrollment_id]

\* Certification.__post_init__ for the verification_code the constructor is
\* given: with the default "" it calls self._generate_verification_code(),
\* which class Certification does not have (the method is the tracker's).
Certification__post_init__(verification_code) ==
    IF verification_code = ""
    THEN Raise("AttributeError")
    ELSE Ok(verification_code)

\* TiXLCertificationTracker.issue_certification: the certifications table it
\* leaves and the value it returns.  The constructor call of lines 484-493
\* passes no verification_code.
issue_certification(student_rows, enrollment_rows, certification_rows, student_id, level, issue_date) ==
    LET certification_id == "c" \o ToString(Len(certification_rows) + 1)
        certification == Certification__post_init__("")
    IN  IF student_id \notin student_rows
        THEN [certifications |-> certification_rows, result |-> None]
        ELSE IF ~_verify_certification_prerequisites(enrollment_rows, certification_rows,
                                                     student_id, level)
        THEN [certifications |-> certification_rows, result |-> None]
        ELSE IF ~certification.ok
        THEN \* except Exception: logged, return None
             [certifications |-> certification_rows, result |-> None]
        ELSE [certifications |->
                 Append(certification_rows,
                        [certification_id |-> certification_id, student_id |-> student_id,
                         certification_level |-> level,
                         expiration_date |-> issue_date + 3 * 365,
                         verification_code |-> certification.value,
                         status |-> "active"]),
              result |-> certification_id]

\* TiXLCertificationTracker.verify_certification at time now: <<>> for None,
\* else <<the dict returned>>.
verify_certification(student_rows, certification_rows, verification_code, now) ==
    LET found == {i \in 1..Len(certification_rows) :
                     /\ certification_rows[i].verification_code = verification_code
                     /\ certification_rows[i].student_id \in student_rows}
    IN  IF found = {} THEN <<>>
        ELSE LET row == certification_rows[CHOOSE i \in found : \A j \in found : i <= j]
             IN  << [verification_code |-> row.verification_code,
                     student_id |-> row.student_id,
                     certification_level |-> row.certification_level,
                     expiration_date |-> row.expiration_date,
                     status |-> row.status,
                     valid |-> row.status = "active" /\ row.expiration_date > now] >>
\* TiXLCertificationTracker.add_student: INSERT INTO students, False on the
\* IntegrityError of a student_id (or e-mail address) already there.
add_student(student_rows, student_id) ==
    IF student_id \in student_rows
    THEN [students |-> student_rows, result |-> FALSE]
    ELSE [students |-> student_rows \cup {student_id}, result |-> TRUE]

MaxEnrollments ==
    3

\* datetime.datetime.now(), in days
TRACKER_NOW ==
    0

\* The arguments the tracker is called with.
StudentIds ==
    {"s1", "s2"}

CourseIds ==
    {"c1", "c2", "c3", "c9"}

EnrollmentIds ==
    {"e" \o ToString(n) : n \in 0..MaxEnrollments}

CertificationLevels ==
    {"TCU", "TCA", "TCE", "TCI"}

VerificationCodes ==
    {"TIXL-20240101000000-0000aaaa", "TIXL-20240101000000-0000ffff"}

\* The database file found at db_path, whose tables _initialize_database
\* keeps (CREATE TABLE IF NOT EXISTS).  The tracker has no operation that
\* inserts a course: the course catalogue is in the file.  The file is either
\* otherwise empty, or holds student s1 with the certifications TCU, TCA, TCE.
Databases ==
    { [students |-> {}, courses |-> {"c1", "c2", "c3"}, certifications |-> <<>>],
      [students |-> {"s1"}, courses |-> {"c1", "c2", "c3"},
       certifications |->
          << [certification_id |-> "c1", student_id |-> "s1", certification_level |-> "TCU",
              expiration_date |-> 3 * 365,
              verification_code |-> "TIXL-20240101000000-0000aaaa", status |-> "active"],
             [certification_id |-> "c2", student_id |-> "s1", certification_level |-> "TCA",
              expiration_date |-> 3 * 365,
              verification_code |-> "TIXL-20240101000000-0000bbbb", status |-> "active"],
             [certification_id |-> "c3", student_id |-> "s1", certification_level |-> "TCE",
              expiration_date |-> 3 * 365,
              verification_code |-> "TIXL-20240101000000-0000cccc", status |-> "active"] >>] }

\* TiXLCertificationTracker(db_path)
InitTracker ==
    /\ EvaluatorIdle /\ ReportIdle /\ HandlerIdle
    /\ \E db \in Databases :
          /\ students = db.students
          /\ courses = db.courses
          /\ certifications = db.certifications
    /\ enrollments = <<>>
    /\ call = <<>>
    /\ tracker_pc = "ready"

\* tracker.add_student(Student(student_id, ...)); only s1 is ever registered.
AddStudent ==
    /\ tracker_pc = "ready"
    /\ LET r == add_student(students, "s1")
       IN  /\ students' = r.students
           /\ call' = [op |-> "add_student", args |-> <<"s1">>, result |-> r.result]
    /\ UNCHANGED <<evaluator_vars, report_vars, handler_vars, courses, enrollments,
                   certifications, tracker_pc>>

\* tracker.enroll_student(student_id, course_id)
EnrollStudent ==
    /\ tracker_pc = "ready"
    /\ Len(enrollments) < MaxEnrollments
    /\ \E student_id \in StudentIds, course_id \in CourseIds :
          LET r == enroll_student(students, courses, enrollments, student_id, course_id)
          IN  /\ enrollments' = r.enrollments
              /\ call' = [op |-> "enroll_student", args |-> <<student_id, course_id>>,
                          result |-> r.result]
    /\ UNCHANGED <<evaluator_vars, report_vars, handler_vars, students, courses,
                   certifications, tracker_pc>>

\* tracker.update_student_progress(enrollment_id, 50.0, status)
UpdateStudentProgress ==
    /\ tracker_pc = "ready"
    /\ \E enrollment_id \in EnrollmentIds,
          status \in {<<>>, <<"withdrawn">>, <<"enrolled">>} :
          LET r == update_student_progress(enrollments, enrollment_id, 50, status)
          IN  /\ enrollments' = r.enrollments
              /\ call' = [op |-> "update_student_progress",
                          args |-> <<enrollment_id>> \o status, result |-> r.result]
    /\ UNCHANGED <<evaluator_vars, report_vars, handler_vars, students, courses,
                   certifications, tracker_pc>>

\* tracker.complete_course(enrollment_id, 90.0)
CompleteCourse ==
    /\ tracker_pc = "ready"
    /\ \E enrollment_id \in EnrollmentIds :
          LET r == complete_course(enrollments, enrollment_id, 90, TRACKER_NOW)
          IN  /\ enrollments' = r.enrollments
              /\ call' = [op |-> "complete_course", args |-> <<enrollment_id>>,
                          result |-> r.result]
    /\ UNCHANGED <<evaluator_vars, report_vars, handler_vars, students, courses,
                   certifications, tracker_pc>>

\* tracker.issue_certification(student_id, level, score, domains, institution)
IssueCertification ==
    /\ tracker_pc = "ready"
    /\ \E student_id \in StudentIds, level \in CertificationLevels :
          LET r == issue_certification(students, enrollments, certifications, student_id,
                                       level, TRACKER_NOW)
          IN  /\ certifications' = r.certifications
              /\ call' = [op |-> "issue_certification", args |-> <<student_id, level>>,
                          result |-> r.result, certifications_before |-> certifications]
    /\ UNCHANGED <<evaluator_vars, report_vars, handler_vars, students, courses,
                   enrollments, tracker_pc>>

\* tracker.verify_certification(verification_code)
VerifyCertification ==
    /\ tracker_pc = "ready"
    /\ \E verification_code \in VerificationCodes :
          call' = [op |-> "verify_certification", args |-> <<verification_code>>,
                   result |-> verify_certification(students, certifications,
                                                   verification_code, TRACKER_NOW)]
    /\ UNCHANGED <<evaluator_vars, report_vars, handler_vars, students, courses,
                   enrollments, certifications, tracker_pc>>

NextTracker ==
    \/ AddStudent
    \/ EnrollStudent
    \/ UpdateStudentProgress
    \/ CompleteCourse
    \/ IssueCertification
    \/ VerifyCertification

SpecTracker ==
    InitTracker /\ [][NextTracker]_vars

\* The enrollments of the pair that are not withdrawn.
ActiveEnrollments(student_id, course_id) ==
    {i \in 1..Len(enrollments) :
        /\ enrollments[i].student_id = student_id
        /\ enrollments[i].course_id = course_id
        /\ enrollments[i].status # "withdrawn"}

\* C28: a (student, course) pair never has two enrollments that are not
\* withdrawn; enroll_student for a pair that has one returns its id and inserts
\* no row; for an unknown student or course it returns None and inserts no row.
C28_OneActiveEnrollmentPerPair ==
    [][(/\ \A s \in StudentIds, c \in CourseIds :
              Cardinality(ActiveEnrollments(s, c))' <= 1
        /\ call'.op = "enroll_student" =>
              LET s == call'.args[1]
                  c == call'.args[2]
              IN  /\ (s \notin students \/ c \notin courses)
                         => call'.result = None /\ enrollments' = enrollments
                  /\ ActiveEnrollments(s, c) # {}
                         => /\ \E i \in ActiveEnrollments(s, c) :
                                  call'.result = enrollments[i].enrollment_id
                            /\ enrollments' = enrollments)]_vars

\* The prerequisites of the level are met by the student.
MeetsPrerequisites(student_id, level) ==
    /\ student_id \in students
    /\ _verify_certification_prerequisites(enrollments, certifications, student_id, level)

\* C29: issue_certification for an existing student who meets the
\* prerequisites of the level inserts one certification row with a
\* verification code no other row has and returns its certification_id;
\* verify_certification with that code returns that certification.
C29_IssueInsertsVerifiableRow ==
    [][((call'.op = "issue_certification"
           /\ MeetsPrerequisites(call'.args[1], call'.args[2]))
        => /\ Len(certifications') = Len(certifications) + 1
           /\ SubSeq(certifications', 1, Len(certifications)) = certifications
           /\ LET row == certifications'[Len(certifications')]
                  verified == verify_certification(students', certifications',
                                                   row.verification_code, TRACKER_NOW)
              IN  /\ row.student_id = call'.args[1]
                  /\ row.certification_level = call'.args[2]
                  /\ call'.result = row.certification_id
                  /\ \A i \in 1..Len(certifications) :
                        certifications[i].verification_code # row.verification_code
                  /\ verified # <<>>
                  /\ verified[1].student_id = row.student_id
                  /\ verified[1].certification_level = row.certification_level)]_vars

\* The level a certification level requires, "" for TCU.
PreviousLevel(level) ==
    CASE level = "TCA" -> "TCU"
      [] level = "TCE" -> "TCA"
      [] level = "TCI" -> "TCE"
      [] OTHER -> ""

\* Every holder of a certification above TCU in the table holds the level
\* before it, and every holder is in the students table.
LadderHolds(student_rows, certification_rows) ==
    \A i \in 1..Len(certification_rows) :
        /\ certification_rows[i].student_id \in student_rows
        /\ PreviousLevel(certification_rows[i].certification_level) # ""
              => HasCertification(certification_rows, certification_rows[i].student_id,
                                  PreviousLevel(certification_rows[i].certification_level))

====
